---- MODULE Spec2Model ----
(***************************************************************************)
(* Model of the account-state engine in core/src/state/mod.rs: the account *)
(* cache, the nested checkpoint stack, the world statistics (the global    *)
(* aggregate) and the commit to the state database.                        *)
(*                                                                         *)
(* Rust Option values are modelled as sequences of length 0 or 1:          *)
(*   None = <<>>,  Some(x) = <<x>>.                                        *)
(* A HashMap<Address, V> is a function from Addresses to Option(V).        *)
(***************************************************************************)
EXTENDS Integers, Sequences, FiniteSets, TLC

VARIABLES
    db,                           \* StateDb: address -> Option(Account)
    db_stat,                      \* StateDb: the persisted scalar counters
    db_epoch,                     \* StateDb: number of epochs committed
    db_log,                       \* StateDb: the writes of the last compute_state_root,
                                  \* in the order they were made
    accounts_to_notify,           \* State.accounts_to_notify
    txpool,                       \* the txpool_update_state threads spawned so far:
                                  \* the accounts each was given, and whether it has
                                  \* called notify_modified_accounts yet
    cache,                        \* State.cache
    world_statistics,             \* State.world_statistics
    world_statistics_checkpoints, \* State.world_statistics_checkpoints
    checkpoints,                  \* State.checkpoints
    ret,                          \* the last call: operation, outcome, value
    ncalls,                       \* calls made so far
    nroots,                       \* compute_state_root / commit calls made so far
    pre,                          \* history: per open scope, what was readable when it was
                                  \* opened, the addresses touched in it, whether a scope
                                  \* was merged into it, and the addresses touched both
                                  \* before and inside, or first inside, a merged scope
    last_pre,                     \* history: the record of the scope the last revert closed
                                  \* and what was readable just before that revert
    shadow,                       \* history: the same calls applied with no checkpoint at all
    since_root,                   \* history: calls since the last compute_state_root
    total_burnt                   \* history: collateral tokens burnt so far

vars == <<db, db_stat, db_epoch, db_log, accounts_to_notify, txpool, cache,
          world_statistics, world_statistics_checkpoints, checkpoints, ret,
          ncalls, nroots, pre, last_pre, shadow, since_root, total_burnt>>

----------------------------------------------------------------------------
(* Bounds of the model *)

\* number of ordinary addresses
NumAddr == 2
\* deepest nesting of checkpoints explored
MaxDepth == 2
\* number of calls in one run, compute_state_root and commit aside
MaxCalls == 2
\* number of compute_state_root and commit calls in one run
MaxRoots == 2
\* largest amount passed to a call
MaxAmount == 1
\* largest block number passed to a call
MaxBlock == 1

Addresses == 1..NumAddr
Amounts == 0..MaxAmount

----------------------------------------------------------------------------
(* Option *)

None == <<>>
Some(x) == <<x>>

\* the first of two amounts, whichever is smaller
First(x, y) == x

Min(x, y) == IF x < y THEN x ELSE y

----------------------------------------------------------------------------
(* Addresses.  Calls take ordinary addresses; the engine itself reads the  *)
(* zero address, the two genesis lock contracts and two internal contracts.   *)

ZeroAddress == 0
genesis_contract_address_four_year == NumAddr + 1
genesis_contract_address_two_year == NumAddr + 2
POS_REGISTER_CONTRACT_ADDRESS == NumAddr + 3
SPONSOR_WHITELIST_CONTROL_CONTRACT_ADDRESS == NumAddr + 4
AllAddresses == 0..(NumAddr + 4)

\* Address::from(H256::from_uint(v)): the address a storage word names
AddressFromWord(v) == IF v \in Addresses THEN v ELSE ZeroAddress

----------------------------------------------------------------------------
(* Protocol parameters (cfx_parameters::staking, diem_types), scaled down  *)
(* to small integers.                                                      *)

BLOCKS_PER_HOUR == 1
BLOCKS_PER_YEAR == 2
INVERSE_INTEREST_RATE == 1
INITIAL_INTEREST_RATE_PER_BLOCK == 2
INTEREST_RATE_PER_BLOCK_SCALE == 4
ACCUMULATED_INTEREST_RATE_SCALE == 4
MAX_TERM_POINTS == 2
DRIPS_PER_STORAGE_COLLATERAL_UNIT == 1

----------------------------------------------------------------------------
(* Account and OverlayAccount (account_entry.rs) *)

\* primitives::Account, as the store keeps it: an account with no code, no
\* sponsor and no storage points
Account(balance, nonce, storage, staking, collateral) ==
    [balance |-> balance, nonce |-> nonce, storage |-> storage,
     staking_balance |-> staking, collateral_for_storage |-> collateral,
     code |-> FALSE, sponsor_balance_for_collateral |-> 0,
     storage_points |-> None]

\* a stored contract with code: SponsorInfo.sponsor_balance_for_collateral and
\* SponsorInfo.storage_points (None until CIP-107 is initialized)
ContractAccount(sponsor_balance, collateral, storage_points) ==
    [Account(0, 1, 0, 0, collateral) EXCEPT
        !.code = TRUE,
        !.sponsor_balance_for_collateral = sponsor_balance,
        !.storage_points = storage_points]

\* OverlayAccount::from_loaded
from_loaded(acc) ==
    [balance |-> acc.balance, nonce |-> acc.nonce, storage |-> acc.storage,
     staking_balance |-> acc.staking_balance,
     collateral_for_storage |-> acc.collateral_for_storage,
     code |-> acc.code,
     sponsor_balance_for_collateral |-> acc.sponsor_balance_for_collateral,
     storage_points |-> acc.storage_points,
     invalidated_storage |-> FALSE, is_newly_created_contract |-> FALSE]

\* OverlayAccount::new_basic
new_basic(balance) ==
    [balance |-> balance, nonce |-> 0, storage |-> 0, staking_balance |-> 0,
     collateral_for_storage |-> 0,
     code |-> FALSE, sponsor_balance_for_collateral |-> 0,
     storage_points |-> None,
     invalidated_storage |-> FALSE, is_newly_created_contract |-> FALSE]

\* OverlayAccount::new_contract_with_admin
new_contract_with_admin(balance, invalidated_storage) ==
    [balance |-> balance, nonce |-> 1, storage |-> 0, staking_balance |-> 0,
     collateral_for_storage |-> 0,
     code |-> FALSE, sponsor_balance_for_collateral |-> 0,
     storage_points |-> None,
     invalidated_storage |-> invalidated_storage,
     is_newly_created_contract |-> TRUE]

\* OverlayAccount::new_removed
new_removed ==
    [balance |-> 0, nonce |-> 0, storage |-> 0, staking_balance |-> 0,
     collateral_for_storage |-> 0,
     code |-> FALSE, sponsor_balance_for_collateral |-> 0,
     storage_points |-> None,
     invalidated_storage |-> TRUE, is_newly_created_contract |-> FALSE]

\* OverlayAccount::as_account
as_account(ov) ==
    [Account(ov.balance, ov.nonce, ov.storage, ov.staking_balance,
             ov.collateral_for_storage) EXCEPT
        !.code = ov.code,
        !.sponsor_balance_for_collateral = ov.sponsor_balance_for_collateral,
        !.storage_points = ov.storage_points]

\* OverlayAccount::removed_without_update
removed_without_update(ov) ==
    ov.invalidated_storage /\ as_account(ov) = Account(0, 0, 0, 0, 0)

\* OverlayAccount::clone_dirty
OverlayAccount_clone_dirty(ov) == ov

----------------------------------------------------------------------------
(* AccountEntry (account_entry.rs) *)

new_clean(maybe_account) == [account |-> maybe_account, state |-> "Clean"]
new_dirty(maybe_account) == [account |-> maybe_account, state |-> "Dirty"]
is_dirty(entry) == entry.state = "Dirty"

\* AccountEntry::clone_dirty
clone_dirty(entry) ==
    [account |-> IF entry.account = None THEN None
                 ELSE Some(OverlayAccount_clone_dirty(entry.account[1])),
     state |-> entry.state]

\* AccountEntry::overwrite_with
overwrite_with(entry, other) ==
    [account |-> other.account, state |-> other.state]

----------------------------------------------------------------------------
(* The account cache and the store *)

\* StateDb::get_account(address).map(OverlayAccount::from_loaded)
get_account(a) == IF db[a] = None THEN None ELSE Some(from_loaded(db[a][1]))

\* a value put in the cache whether the address has a slot or not
insert_cache_account(c, a, maybe_account) ==
    [c EXCEPT ![a] = Some(new_clean(maybe_account))]

\* State::insert_cache_if_fresh_account
insert_cache_if_fresh_account(c, a, maybe_account) ==
    IF c[a] = None
    THEN [c EXCEPT ![a] = Some(new_clean(maybe_account))]
    ELSE c

\* read_account_ext inserting the loaded account as a Dirty slot
read_account_ext_insert_dirty(c, a) ==
    IF c[a] # None
    THEN c
    ELSE [c EXCEPT ![a] = Some(new_dirty(get_account(a)))]

\* State::read_account_ext with RequireCache::None: the cache it leaves
read_account_ext(c, a) ==
    IF c[a] # None
    THEN c
    ELSE insert_cache_if_fresh_account(c, a, get_account(a))

\* State::read_account: the overlay it returns (None when not found)
read_account(c, a) == read_account_ext(c, a)[a][1].account

\* State::exists
exists(c, a) == read_account(c, a) # None

\* State::balance, with try_loaded!'s default for an absent account
balance(c, a) ==
    IF read_account(c, a) = None THEN 0 ELSE read_account(c, a)[1].balance

\* State::nonce
State_nonce(c, a) ==
    IF read_account(c, a) = None THEN 0 ELSE read_account(c, a)[1].nonce

\* State::storage_at
storage_at(c, a) ==
    IF read_account(c, a) = None THEN 0 ELSE read_account(c, a)[1].storage

\* State::staking_balance
staking_balance(c, a) ==
    IF read_account(c, a) = None THEN 0
    ELSE read_account(c, a)[1].staking_balance

\* State::token_collateral_for_storage
token_collateral_for_storage(c, a) ==
    IF read_account(c, a) = None THEN 0
    ELSE read_account(c, a)[1].collateral_for_storage

\* a checkpoint frame with no key
EmptyFrame == [a \in AllAddresses |-> None]

\* require_or_set recording the slot with insert in place of or_insert_with
require_or_set_overwrite(c, cps, a, default_) ==
    LET c1 == IF c[a] = None
              THEN insert_cache_if_fresh_account(c, a, get_account(a))
              ELSE c
        cps1 == IF Len(cps) > 0
                THEN [cps EXCEPT ![Len(cps)] =
                        [@ EXCEPT ![a] = Some(Some(clone_dirty(c1[a][1])))]]
                ELSE cps
        account == IF c1[a][1].account # None THEN c1[a][1].account
                   ELSE IF default_ = "new_basic" THEN Some(new_basic(0))
                   ELSE None
    IN  [cache |-> [c1 EXCEPT ![a] = Some([account |-> account, state |-> "Dirty"])],
         checkpoints |-> cps1,
         ok |-> account # None]

\* require_or_set making up a basic account whatever the default is
require_or_set_always_new(c, cps, a, default_) ==
    LET c1 == IF c[a] = None
              THEN insert_cache_if_fresh_account(c, a, get_account(a))
              ELSE c
        cps1 == IF Len(cps) > 0
                THEN [cps EXCEPT ![Len(cps)] =
                        IF @[a] = None
                        THEN [@ EXCEPT ![a] = Some(Some(clone_dirty(c1[a][1])))]
                        ELSE @]
                ELSE cps
        account == IF c1[a][1].account # None THEN c1[a][1].account
                   ELSE Some(new_basic(0))
    IN  [cache |-> [c1 EXCEPT ![a] = Some([account |-> account, state |-> "Dirty"])],
         checkpoints |-> cps1,
         ok |-> TRUE]

\* require_or_set that stores a made-up account before it reports the error
require_or_set_default_kept(c, cps, a, default_) ==
    LET c1 == IF c[a] = None
              THEN insert_cache_if_fresh_account(c, a, get_account(a))
              ELSE c
        account == IF c1[a][1].account # None THEN c1[a][1].account
                   ELSE Some(new_basic(0))
    IN  [cache |-> [c1 EXCEPT ![a] = Some([account |-> account, state |-> "Dirty"])],
         checkpoints |-> cps,
         ok |-> c1[a][1].account # None \/ default_ = "new_basic"]

\* State::require_or_set; default_ is "new_basic" (require_or_new_basic_account)
\* or "error" (require_exists).  The outcome is [cache, checkpoints, ok]: on
\* the error the entry stays in the cache, Dirty and without account.
require_or_set(c, cps, a, default_) ==
    LET c1 == IF c[a] = None
              THEN insert_cache_if_fresh_account(c, a, get_account(a))
              ELSE c
        cps1 == IF Len(cps) > 0
                THEN [cps EXCEPT ![Len(cps)] =
                        IF @[a] = None
                        THEN [@ EXCEPT ![a] = Some(Some(clone_dirty(c1[a][1])))]
                        ELSE @]
                ELSE cps
        account == IF c1[a][1].account # None THEN c1[a][1].account
                   ELSE IF default_ = "new_basic" THEN Some(new_basic(0))
                   ELSE None
    IN  [cache |-> [c1 EXCEPT ![a] = Some([account |-> account, state |-> "Dirty"])],
         checkpoints |-> cps1,
         ok |-> account # None]

\* State::update_cache
update_cache(c, cps, a, entry) ==
    LET old_value == c[a]
    IN  [cache |-> [c EXCEPT ![a] = Some(entry)],
         checkpoints |->
            IF is_dirty(entry) /\ Len(cps) > 0
            THEN [cps EXCEPT ![Len(cps)] =
                    IF @[a] = None THEN [@ EXCEPT ![a] = Some(old_value)] ELSE @]
            ELSE cps]

\* the write through the guard require_or_set returns
set_account(c, a, ov) ==
    [c EXCEPT ![a] = Some([@[1] EXCEPT !.account = Some(ov)])]

\* what a query of address a reads: the cached overlay, else the stored account
View(c) ==
    [a \in AllAddresses |-> IF c[a] # None THEN c[a][1].account ELSE get_account(a)]

----------------------------------------------------------------------------
(* OverlayAccount's mutators (account_entry.rs) *)

OverlayAccount_add_balance(ov, by) == [ov EXCEPT !.balance = @ + by]
OverlayAccount_sub_balance(ov, by) == [ov EXCEPT !.balance = @ - by]
OverlayAccount_set_nonce(ov, nonce) == [ov EXCEPT !.nonce = nonce]
OverlayAccount_set_storage(ov, value) == [ov EXCEPT !.storage = value]
OverlayAccount_deposit(ov, amount) ==
    [ov EXCEPT !.balance = @ - amount, !.staking_balance = @ + amount]
\* the interest a withdrawal returns; deposits accrue none at this scale
OverlayAccount_withdraw_interest(ov, amount) == 0
OverlayAccount_withdraw(ov, amount) ==
    [ov EXCEPT !.staking_balance = @ - amount,
               !.balance = @ + amount + OverlayAccount_withdraw_interest(ov, amount)]
\* the storage points a charge of by uses: a contract with code pays from its
\* unused storage points first; an ordinary account holds none
OverlayAccount_storage_point_used(ov, by) ==
    IF ov.code /\ ov.storage_points # None
    THEN Min(by, ov.storage_points[1].unused)
    ELSE 0
\* the storage points a refund of by returns: points in use come back first
OverlayAccount_storage_point_refund(ov, by) ==
    IF ov.code /\ ov.storage_points # None
    THEN Min(by, ov.storage_points[1].used)
    ELSE 0
\* the token part of a charge comes from the sponsor balance for collateral
\* of a contract with code, and from the balance of an ordinary account
OverlayAccount_add_collateral_for_storage(ov, by) ==
    LET points == OverlayAccount_storage_point_used(ov, by)
        tokens == by - points
    IN  IF ov.code
        THEN [ov EXCEPT
                !.sponsor_balance_for_collateral = @ - tokens,
                !.collateral_for_storage = @ + tokens,
                !.storage_points =
                    IF @ = None THEN @
                    ELSE Some([unused |-> @[1].unused - points,
                               used |-> @[1].used + points])]
        ELSE [ov EXCEPT !.balance = @ - by, !.collateral_for_storage = @ + by]
OverlayAccount_sub_collateral_for_storage(ov, by) ==
    LET points == OverlayAccount_storage_point_refund(ov, by)
        tokens == by - points
    IN  IF ov.code
        THEN [ov EXCEPT
                !.sponsor_balance_for_collateral = @ + tokens,
                !.collateral_for_storage = @ - tokens,
                !.storage_points =
                    IF @ = None THEN @
                    ELSE Some([unused |-> @[1].unused + points,
                               used |-> @[1].used - points])]
        ELSE [ov EXCEPT !.balance = @ + by, !.collateral_for_storage = @ - by]
\* OverlayAccount::is_cip_107_initialized
OverlayAccount_is_cip_107_initialized(ov) == ov.storage_points # None
\* OverlayAccount::initialize_cip107: the part prop / (1 + prop) of the sponsor
\* balance for collateral and of the collateral becomes storage points, taken
\* from the sponsor balance first; the outcome is the overlay after it, the
\* tokens burnt from the balance and from the collateral, and the points
OverlayAccount_initialize_cip107(ov, prop) ==
    LET total == ov.sponsor_balance_for_collateral + ov.collateral_for_storage
        changed_storage_points == (total * prop) \div (1 + prop)
        from_balance == Min(ov.sponsor_balance_for_collateral, changed_storage_points)
        from_collateral == changed_storage_points - from_balance
    IN  [account |-> [ov EXCEPT
                        !.sponsor_balance_for_collateral = @ - from_balance,
                        !.collateral_for_storage = @ - from_collateral,
                        !.storage_points =
                            Some([unused |-> from_balance, used |-> from_collateral])],
         burnt_balance_from_balance |-> from_balance,
         burnt_balance_from_collateral |-> from_collateral,
         changed_storage_points |-> changed_storage_points]

----------------------------------------------------------------------------
(* The calls of State, as functions of the cache, the checkpoint stack and *)
(* the world statistics they start from.  Each yields the three after the  *)
(* call, the call's outcome res ("Ok", "Err" for a DbResult error, "Panic" *)
(* for a failed assertion or an arithmetic overflow, or a                  *)
(* CollateralCheckResult), its value val, and the set touched of addresses *)
(* it took through require_or_set or update_cache.  burnt is history: the   *)
(* tokens the call took off total_issued_tokens as a burn of collateral.   *)

Eff(c, cps, ws, res, val, touched) ==
    [cache |-> c, checkpoints |-> cps, ws |-> ws, res |-> res, val |-> val,
     touched |-> touched, burnt |-> 0]

CleanupModes == {"NoEmpty", "ForceCreate", "TrackTouched"}

\* State::add_balance
add_balance(c, cps, ws, a, by, cleanup_mode) ==
    LET ex == exists(c, a)
        c0 == read_account_ext(c, a)
    IN  IF by # 0 \/ (cleanup_mode = "ForceCreate" /\ ~ex)
        THEN LET r == require_or_set(c0, cps, a, "new_basic")
             IN  Eff(set_account(r.cache, a,
                        OverlayAccount_add_balance(r.cache[a][1].account[1], by)),
                     r.checkpoints, ws, "Ok", 0, {a})
        ELSE Eff(c0, cps, ws, "Ok", 0, {})

\* State::sub_balance
sub_balance(c, cps, ws, a, by, cleanup_mode) ==
    IF by # 0
    THEN LET r == require_or_set(c, cps, a, "error")
         IN  IF ~r.ok
             THEN Eff(r.cache, r.checkpoints, ws, "Err", 0, {a})
             ELSE Eff(set_account(r.cache, a,
                        OverlayAccount_sub_balance(r.cache[a][1].account[1], by)),
                      r.checkpoints, ws, "Ok", 0, {a})
    ELSE Eff(IF cleanup_mode = "TrackTouched" THEN read_account_ext(c, a) ELSE c,
             cps, ws, "Ok", 0, {})

\* State::set_nonce
set_nonce(c, cps, ws, a, nonce) ==
    LET r == require_or_set(c, cps, a, "new_basic")
    IN  Eff(set_account(r.cache, a,
                OverlayAccount_set_nonce(r.cache[a][1].account[1], nonce)),
            r.checkpoints, ws, "Ok", 0, {a})

\* State::set_storage
set_storage(c, cps, ws, a, value) ==
    LET c0 == read_account_ext(c, a)
    IN  IF storage_at(c, a) # value
        THEN LET r == require_or_set(c0, cps, a, "error")
             IN  IF ~r.ok
                 THEN Eff(r.cache, r.checkpoints, ws, "Err", 0, {a})
                 ELSE Eff(set_account(r.cache, a,
                            OverlayAccount_set_storage(r.cache[a][1].account[1], value)),
                          r.checkpoints, ws, "Ok", 0, {a})
        ELSE Eff(c0, cps, ws, "Ok", 0, {})

\* State::new_contract_with_admin
new_contract(c, cps, ws, a, bal) ==
    LET c0 == read_account_ext(c, a)
        invalidated_storage ==
            IF read_account(c, a) = None THEN FALSE
            ELSE read_account(c, a)[1].invalidated_storage
        u == update_cache(c0, cps, a,
                new_dirty(Some(new_contract_with_admin(bal, invalidated_storage))))
    IN  Eff(u.cache, u.checkpoints, ws, "Ok", 0, {a})

\* State::remove_whitelists_for_contract, for a contract with no whitelist
\* entry: it takes the whitelist contract through require_exists
remove_whitelists_for_contract(c, cps) ==
    require_or_set(c, cps, SPONSOR_WHITELIST_CONTROL_CONTRACT_ADDRESS, "error")

\* State::remove_contract (native space)
remove_contract(c, cps, ws, a) ==
    LET r == remove_whitelists_for_contract(c, cps)
    IN  IF ~r.ok
        THEN Eff(r.cache, r.checkpoints, ws, "Err", 0,
                 {SPONSOR_WHITELIST_CONTROL_CONTRACT_ADDRESS})
        ELSE LET u == update_cache(r.cache, r.checkpoints, a,
                        new_dirty(Some(new_removed)))
             IN  Eff(u.cache, u.checkpoints, ws, "Ok", 0,
                     {SPONSOR_WHITELIST_CONTROL_CONTRACT_ADDRESS, a})

\* transfer_balance crediting the receiver without debiting the sender
transfer_balance_no_debit(c, cps, ws, from, to, by, cleanup_mode) ==
    add_balance(c, cps, ws, to, by, cleanup_mode)

\* State::transfer_balance
transfer_balance(c, cps, ws, from, to, by, cleanup_mode) ==
    LET s == sub_balance(c, cps, ws, from, by, cleanup_mode)
        t == add_balance(s.cache, s.checkpoints, s.ws, to, by, cleanup_mode)
    IN  IF s.res # "Ok"
        THEN s
        ELSE [t EXCEPT !.touched = @ \cup s.touched]

\* State::deposit
deposit(c, cps, ws, a, amount) ==
    IF amount # 0
    THEN LET r == require_or_set(c, cps, a, "error")
         IN  IF ~r.ok
             THEN Eff(r.cache, r.checkpoints, ws, "Err", 0, {a})
             ELSE Eff(set_account(r.cache, a,
                        OverlayAccount_deposit(r.cache[a][1].account[1], amount)),
                      r.checkpoints,
                      [ws EXCEPT !.total_staking_tokens = @ + amount],
                      "Ok", 0, {a})
    ELSE Eff(c, cps, ws, "Ok", 0, {})

\* withdraw leaving total_staking_tokens as it is
withdraw_keep_total(c, cps, ws, a, amount) ==
    IF amount # 0
    THEN LET r == require_or_set(c, cps, a, "error")
         IN  IF ~r.ok
             THEN Eff(r.cache, r.checkpoints, ws, "Err", 0, {a})
             ELSE LET ov == r.cache[a][1].account[1]
                      interest == OverlayAccount_withdraw_interest(ov, amount)
                  IN  Eff(set_account(r.cache, a, OverlayAccount_withdraw(ov, amount)),
                          r.checkpoints,
                          [ws EXCEPT !.total_issued_tokens = @ + interest],
                          "Ok", interest, {a})
    ELSE Eff(c, cps, ws, "Ok", 0, {})

\* State::withdraw
withdraw(c, cps, ws, a, amount) ==
    IF amount # 0
    THEN LET r == require_or_set(c, cps, a, "error")
         IN  IF ~r.ok
             THEN Eff(r.cache, r.checkpoints, ws, "Err", 0, {a})
             ELSE LET ov == r.cache[a][1].account[1]
                      interest == OverlayAccount_withdraw_interest(ov, amount)
                  IN  IF ws.total_staking_tokens < amount
                      THEN Eff(c, cps, ws, "Panic", 0, {a})
                      ELSE Eff(set_account(r.cache, a, OverlayAccount_withdraw(ov, amount)),
                               r.checkpoints,
                               [ws EXCEPT !.total_issued_tokens = @ + interest,
                                          !.total_staking_tokens = @ - amount],
                               "Ok", interest, {a})
    ELSE Eff(c, cps, ws, "Ok", 0, {})

\* add_collateral_for_storage counting the whole charge as tokens
add_collateral_for_storage_all_tokens(c, cps, ws, a, by) ==
    IF by # 0
    THEN LET r == require_or_set(c, cps, a, "error")
         IN  IF ~r.ok
             THEN Eff(r.cache, r.checkpoints, ws, "Err", 0, {a})
             ELSE Eff(set_account(r.cache, a,
                        OverlayAccount_add_collateral_for_storage(
                            r.cache[a][1].account[1], by)),
                      r.checkpoints,
                      [ws EXCEPT !.total_storage_tokens = @ + by],
                      "Ok", 0, {a})
    ELSE Eff(c, cps, ws, "Ok", 0, {})

\* State::add_collateral_for_storage
add_collateral_for_storage(c, cps, ws, a, by) ==
    IF by # 0
    THEN LET r == require_or_set(c, cps, a, "error")
         IN  IF ~r.ok
             THEN Eff(r.cache, r.checkpoints, ws, "Err", 0, {a})
             ELSE LET storage_point_used ==
                          OverlayAccount_storage_point_used(r.cache[a][1].account[1], by)
                  IN  Eff(set_account(r.cache, a,
                            OverlayAccount_add_collateral_for_storage(
                                r.cache[a][1].account[1], by)),
                          r.checkpoints,
                          [ws EXCEPT
                            !.total_storage_tokens = @ + (by - storage_point_used),
                            !.used_storage_points = @ + storage_point_used],
                          "Ok", storage_point_used, {a})
    ELSE Eff(c, cps, ws, "Ok", 0, {})

\* State::sub_collateral_for_storage
sub_collateral_for_storage(c, cps, ws, a, by) ==
    LET collateral == token_collateral_for_storage(c, a)
        c0 == read_account_ext(c, a)
        refundable == Min(by, collateral)
        burnt == by - refundable
        r == IF refundable # 0
             THEN require_or_set(c0, cps, a, "new_basic")
             ELSE [cache |-> c0, checkpoints |-> cps, ok |-> TRUE]
        storage_point_refund ==
            IF refundable # 0
            THEN OverlayAccount_storage_point_refund(r.cache[a][1].account[1], refundable)
            ELSE 0
        c1 == IF refundable # 0
              THEN set_account(r.cache, a,
                      OverlayAccount_sub_collateral_for_storage(
                          r.cache[a][1].account[1], refundable))
              ELSE r.cache
    IN  IF \/ ws.total_storage_tokens < by - storage_point_refund
           \/ ws.used_storage_points < storage_point_refund
           \/ ws.total_issued_tokens < burnt
        THEN Eff(c, cps, ws, "Panic", 0, {})
        ELSE [Eff(c1, r.checkpoints,
                  [ws EXCEPT !.total_storage_tokens = @ - (by - storage_point_refund),
                             !.used_storage_points = @ - storage_point_refund,
                             !.total_issued_tokens = @ - burnt],
                  "Ok", storage_point_refund, IF refundable # 0 THEN {a} ELSE {})
              EXCEPT !.burnt = burnt]

\* the addresses of contract type (Address::is_contract_address)
ContractAddresses == {NumAddr}

\* State::is_contract_with_code (native space)
is_contract_with_code(c, a) ==
    IF a \notin ContractAddresses THEN FALSE
    ELSE IF read_account(c, a) = None THEN FALSE
    ELSE read_account(c, a)[1].code

\* State::sponsor_balance_for_collateral
sponsor_balance_for_collateral(c, a) ==
    IF read_account(c, a) = None THEN 0
    ELSE read_account(c, a)[1].sponsor_balance_for_collateral

\* an account with no storage points to use
no_storage_points(c, a) == 0

\* State::avaliable_storage_point_for_collateral
avaliable_storage_point_for_collateral(c, a) ==
    IF read_account(c, a) = None THEN 0
    ELSE IF read_account(c, a)[1].storage_points = None THEN 0
    ELSE read_account(c, a)[1].storage_points[1].unused

\* OverlayAccount::collateral_for_storage: the token collateral and the storage
\* points in use
OverlayAccount_collateral_for_storage(ov) ==
    ov.collateral_for_storage
        + (IF ov.storage_points = None THEN 0 ELSE ov.storage_points[1].used)

\* State::collateral_for_storage
collateral_for_storage(c, a) ==
    IF read_account(c, a) = None THEN 0
    ELSE OverlayAccount_collateral_for_storage(read_account(c, a)[1])

\* State::storage_point_prop: the proportion the system storage holds
storage_point_prop == 1

\* State::initialize_cip107
initialize_cip107(c, cps, ws, a) ==
    LET r == require_or_set(c, cps, a, "new_basic")
        ov == r.cache[a][1].account[1]
        init == OverlayAccount_initialize_cip107(ov, storage_point_prop)
        burnt_balance_from_balance == init.burnt_balance_from_balance
        burnt_balance_from_collateral == init.burnt_balance_from_collateral
    IN  IF OverlayAccount_is_cip_107_initialized(ov)
        THEN Eff(r.cache, r.checkpoints, ws, "Ok", 0, {a})
        ELSE IF \/ ws.total_issued_tokens
                      < burnt_balance_from_balance + burnt_balance_from_collateral
                \/ ws.total_storage_tokens < burnt_balance_from_collateral
        THEN Eff(c, cps, ws, "Panic", 0, {})
        ELSE Eff(set_account(r.cache, a, init.account), r.checkpoints,
                 [ws EXCEPT
                    !.total_issued_tokens =
                        @ - (burnt_balance_from_balance + burnt_balance_from_collateral),
                    !.total_storage_tokens = @ - burnt_balance_from_collateral,
                    !.used_storage_points = @ + burnt_balance_from_collateral,
                    !.converted_storage_points = init.changed_storage_points],
                 "Ok", 0, {a})

\* State::settle_collateral_for_address from the balance check on: s is the
\* state the refund has left, inc the drips to charge
settle_collateral_charge(s, a, inc, is_contract) ==
    LET bal == IF is_contract
               THEN sponsor_balance_for_collateral(s.cache, a)
                       + avaliable_storage_point_for_collateral(s.cache, a)
               ELSE balance(s.cache, a)
        c2 == read_account_ext(s.cache, a)
    IN  IF inc > bal
        THEN [s EXCEPT !.cache = c2, !.res = "NotEnoughBalance", !.val = bal]
        ELSE [add_collateral_for_storage(c2, s.checkpoints, s.ws, a, inc)
                EXCEPT !.res = IF @ = "Ok" THEN "Valid" ELSE @,
                       !.val = 0,
                       !.touched = @ \cup s.touched,
                       !.burnt = s.burnt]

\* State::settle_collateral_for_address after the refund: s is the state
\* sub_collateral_for_storage has left
settle_collateral_refunded(s, a, inc, dry_run_no_charge, is_contract) ==
    IF s.res # "Ok"
    THEN s
    ELSE IF inc # 0 /\ ~dry_run_no_charge
    THEN settle_collateral_charge(s, a, inc, is_contract)
    ELSE [s EXCEPT !.res = "Valid", !.val = 0]

\* State::settle_collateral_for_address after the CIP-107 step: i is the
\* state initialize_cip107 has left
settle_collateral_initialized(i, a, inc, sub, dry_run_no_charge, is_contract) ==
    IF i.res # "Ok"
    THEN i
    ELSE settle_collateral_refunded(
             IF sub # 0
             THEN [sub_collateral_for_storage(i.cache, i.checkpoints, i.ws, a, sub)
                     EXCEPT !.touched = @ \cup i.touched]
             ELSE i,
             a, inc, dry_run_no_charge, is_contract)

\* State::settle_collateral_for_address: inc_collaterals and sub_collaterals
\* are the collateral units the substate recorded for the address, cip107 is
\* spec.cip107
settle_collateral_for_address(c, cps, ws, a, inc_collaterals, sub_collaterals, dry_run_no_charge, cip107) ==
    LET inc == DRIPS_PER_STORAGE_COLLATERAL_UNIT * inc_collaterals
        sub == DRIPS_PER_STORAGE_COLLATERAL_UNIT * sub_collaterals
        c0 == IF a \in ContractAddresses THEN read_account_ext(c, a) ELSE c
    IN  settle_collateral_initialized(
            IF cip107 /\ a \in ContractAddresses /\ (sub # 0 \/ inc # 0)
            THEN initialize_cip107(c0, cps, ws, a)
            ELSE Eff(c0, cps, ws, "Ok", 0, {}),
            a, inc, sub, dry_run_no_charge, is_contract_with_code(c, a))

\* check_storage_limit refusing a collateral equal to the limit
check_storage_limit_inclusive(c, original_sender, storage_limit, dry_run_no_charge) ==
    LET required == collateral_for_storage(c, original_sender)
    IN  [cache |-> read_account_ext(c, original_sender),
         res |-> IF required >= storage_limit /\ ~dry_run_no_charge
                 THEN "ExceedStorageLimit" ELSE "Valid",
         val |-> IF required >= storage_limit /\ ~dry_run_no_charge
                 THEN required ELSE 0]

\* check_storage_limit made in a dry run as well
check_storage_limit_in_dry_run(c, original_sender, storage_limit, dry_run_no_charge) ==
    LET required == collateral_for_storage(c, original_sender)
    IN  [cache |-> read_account_ext(c, original_sender),
         res |-> IF required > storage_limit THEN "ExceedStorageLimit" ELSE "Valid",
         val |-> IF required > storage_limit THEN required ELSE 0]

\* State::check_storage_limit
check_storage_limit(c, original_sender, storage_limit, dry_run_no_charge) ==
    LET required == collateral_for_storage(c, original_sender)
    IN  [cache |-> read_account_ext(c, original_sender),
         res |-> IF required > storage_limit /\ ~dry_run_no_charge
                 THEN "ExceedStorageLimit" ELSE "Valid",
         val |-> IF required > storage_limit /\ ~dry_run_no_charge
                 THEN required ELSE 0]

\* State::settle_collateral_for_all: keys is substate.keys_for_collateral_changed()
\* in the order the loop takes it, changes[a] the pair <<inc, sub>> of
\* substate.get_collateral_change(a).  settled counts the addresses whose
\* settlement was Valid.
RECURSIVE settle_collateral_for_all(_, _, _, _, _, _, _)

\* one turn of the loop of settle_collateral_for_all: e is what
\* settle_collateral_for_address returned for the first of keys
settle_collateral_for_all_next(e, keys, changes, dry_run_no_charge, cip107) ==
    IF e.res # "Valid"
    THEN e @@ [settled |-> 0]
    ELSE [settle_collateral_for_all(e.cache, e.checkpoints, e.ws, Tail(keys),
                                    changes, dry_run_no_charge, cip107)
            EXCEPT !.touched = @ \cup e.touched,
                   !.burnt = @ + e.burnt,
                   !.settled = @ + 1]

settle_collateral_for_all(c, cps, ws, keys, changes, dry_run_no_charge, cip107) ==
    IF keys = <<>>
    THEN Eff(c, cps, ws, "Valid", 0, {}) @@ [settled |-> 0]
    ELSE settle_collateral_for_all_next(
             settle_collateral_for_address(
                 c, cps, ws, Head(keys), changes[Head(keys)][1],
                 changes[Head(keys)][2], dry_run_no_charge, cip107),
             keys, changes, dry_run_no_charge, cip107)

\* the result of check_storage_limit put on the result of the settlement
with_storage_limit(e, l) ==
    [e EXCEPT !.cache = l.cache, !.res = l.res, !.val = l.val]

\* a refusal of check_storage_limit put on the result of the settlement
with_failed_storage_limit(e, l) ==
    IF l.res = "Valid" THEN e ELSE with_storage_limit(e, l)

\* the second step of collect_and_settle_collateral made whatever the
\* settlement returned
settled_always_check(e, original_sender, storage_limit, dry_run_no_charge) ==
    IF e.res = "Panic"
    THEN e
    ELSE with_failed_storage_limit(
             e, check_storage_limit(e.cache, original_sender, storage_limit,
                                    dry_run_no_charge))

\* State::collect_and_settle_collateral after settle_collateral_for_all
\* returned e: the `?` and check_storage_limit
settled_then_check(e, original_sender, storage_limit, dry_run_no_charge) ==
    IF e.res # "Valid"
    THEN e
    ELSE with_storage_limit(
             e, check_storage_limit(e.cache, original_sender, storage_limit,
                                    dry_run_no_charge))

\* collect_and_settle_collateral checking the storage limit whatever the
\* settlement returned
collect_and_settle_collateral_always_check(c, cps, ws, original_sender, storage_limit, keys, changes, dry_run_no_charge, cip107) ==
    settled_always_check(
        settle_collateral_for_all(c, cps, ws, keys, changes,
                                  dry_run_no_charge, cip107),
        original_sender, storage_limit, dry_run_no_charge)

\* collect_and_settle_collateral undoing its own changes when it refuses
collect_and_settle_collateral_rolled_back(c, cps, ws, original_sender, storage_limit, keys, changes, dry_run_no_charge, cip107) ==
    LET e == settled_then_check(
                settle_collateral_for_all(c, cps, ws, keys, changes,
                                          dry_run_no_charge, cip107),
                original_sender, storage_limit, dry_run_no_charge)
    IN  IF e.res \in {"NotEnoughBalance", "ExceedStorageLimit"}
        THEN [e EXCEPT !.cache = c, !.checkpoints = cps, !.ws = ws]
        ELSE e

\* State::collect_and_settle_collateral, the substate given as
\* collect_ownership_changed has left it
collect_and_settle_collateral(c, cps, ws, original_sender, storage_limit, keys, changes, dry_run_no_charge, cip107) ==
    settled_then_check(
        settle_collateral_for_all(c, cps, ws, keys, changes,
                                  dry_run_no_charge, cip107),
        original_sender, storage_limit, dry_run_no_charge)

----------------------------------------------------------------------------
(* Checkpoints *)

\* checkpoint reading the length after the push
checkpoint_len_after_push(cps, ws, wcps) ==
    [world_statistics_checkpoints |-> Append(wcps, ws),
     index |-> Len(cps) + 1,
     checkpoints |-> Append(cps, EmptyFrame)]

\* State::checkpoint: the two stacks it leaves and the index it returns
checkpoint(cps, ws, wcps) ==
    [world_statistics_checkpoints |-> Append(wcps, ws),
     index |-> Len(cps),
     checkpoints |-> Append(cps, EmptyFrame)]

\* discard_checkpoint merging with insert in place of entry().or_insert()
discard_checkpoint_last_write(cps, wcps) ==
    IF Len(cps) = 0
    THEN [checkpoints |-> cps, world_statistics_checkpoints |-> wcps]
    ELSE LET last == cps[Len(cps)]
             rest == SubSeq(cps, 1, Len(cps) - 1)
             wrest == IF Len(wcps) = 0 THEN wcps
                      ELSE SubSeq(wcps, 1, Len(wcps) - 1)
         IN  IF Len(rest) = 0
             THEN [checkpoints |-> rest, world_statistics_checkpoints |-> wrest]
             ELSE LET prev == rest[Len(rest)]
                      merged ==
                          [k \in AllAddresses |->
                              IF last[k] = None THEN prev[k] ELSE last[k]]
                  IN  [checkpoints |-> [rest EXCEPT ![Len(rest)] = merged],
                       world_statistics_checkpoints |-> wrest]

\* discard_checkpoint without the pop of world_statistics_checkpoints
discard_checkpoint_keep_snapshot(cps, wcps) ==
    IF Len(cps) = 0
    THEN [checkpoints |-> cps, world_statistics_checkpoints |-> wcps]
    ELSE LET last == cps[Len(cps)]
             rest == SubSeq(cps, 1, Len(cps) - 1)
         IN  IF Len(rest) = 0
             THEN [checkpoints |-> rest, world_statistics_checkpoints |-> wcps]
             ELSE LET prev == rest[Len(rest)]
                      merged ==
                          IF prev = EmptyFrame
                          THEN last
                          ELSE [k \in AllAddresses |->
                                  IF prev[k] = None THEN last[k] ELSE prev[k]]
                  IN  [checkpoints |-> [rest EXCEPT ![Len(rest)] = merged],
                       world_statistics_checkpoints |-> wcps]

\* discard_checkpoint dropping the popped frame without the merge
discard_checkpoint_no_merge(cps, wcps) ==
    IF Len(cps) = 0
    THEN [checkpoints |-> cps, world_statistics_checkpoints |-> wcps]
    ELSE [checkpoints |-> SubSeq(cps, 1, Len(cps) - 1),
          world_statistics_checkpoints |->
              IF Len(wcps) = 0 THEN wcps ELSE SubSeq(wcps, 1, Len(wcps) - 1)]

\* State::discard_checkpoint: the two stacks it leaves
discard_checkpoint(cps, wcps) ==
    IF Len(cps) = 0
    THEN [checkpoints |-> cps, world_statistics_checkpoints |-> wcps]
    ELSE LET last == cps[Len(cps)]
             rest == SubSeq(cps, 1, Len(cps) - 1)
             wrest == IF Len(wcps) = 0 THEN wcps
                      ELSE SubSeq(wcps, 1, Len(wcps) - 1)
         IN  IF Len(rest) = 0
             THEN [checkpoints |-> rest, world_statistics_checkpoints |-> wrest]
             ELSE LET prev == rest[Len(rest)]
                      merged ==
                          IF prev = EmptyFrame
                          THEN last
                          ELSE [k \in AllAddresses |->
                                  IF prev[k] = None THEN last[k] ELSE prev[k]]
                  IN  [checkpoints |-> [rest EXCEPT ![Len(rest)] = merged],
                       world_statistics_checkpoints |-> wrest]

\* revert_to_checkpoint restoring with entry().or_insert() in place of
\* overwrite_with
revert_cache_or_insert(c, last) ==
    [k \in AllAddresses |->
        IF last[k] = None
        THEN c[k]
        ELSE LET v == last[k][1]
             IN  IF v # None
                 THEN IF c[k] # None THEN c[k] ELSE Some(v[1])
                 ELSE IF c[k] # None /\ is_dirty(c[k][1])
                      THEN None
                      ELSE c[k]]

\* revert_to_checkpoint leaving in place the slots whose prior value is absent
revert_cache_keep_created(c, last) ==
    [k \in AllAddresses |->
        IF last[k] = None \/ last[k][1] = None
        THEN c[k]
        ELSE Some(last[k][1][1])]

\* State::revert_to_checkpoint: the cache after the popped frame is undone
revert_cache(c, last) ==
    [k \in AllAddresses |->
        IF last[k] = None
        THEN c[k]
        ELSE LET v == last[k][1]
             IN  IF v # None
                 THEN IF c[k] # None
                      THEN Some(overwrite_with(c[k][1], v[1]))
                      ELSE Some(v[1])
                 ELSE IF c[k] # None /\ is_dirty(c[k][1])
                      THEN None
                      ELSE c[k]]

\* revert_to_checkpoint with pop().expect() on the checkpoint stack
revert_to_checkpoint_expect(c, cps, ws, wcps) ==
    IF Len(cps) = 0 \/ Len(wcps) = 0
    THEN [cache |-> c, checkpoints |-> cps, ws |-> ws,
          world_statistics_checkpoints |-> wcps, res |-> "Panic"]
    ELSE [cache |-> revert_cache(c, cps[Len(cps)]),
          checkpoints |-> SubSeq(cps, 1, Len(cps) - 1),
          ws |-> wcps[Len(wcps)],
          world_statistics_checkpoints |-> SubSeq(wcps, 1, Len(wcps) - 1),
          res |-> "Ok"]

\* revert_to_checkpoint reading the snapshot with last() in place of pop()
revert_to_checkpoint_peek(c, cps, ws, wcps) ==
    IF Len(cps) = 0
    THEN [cache |-> c, checkpoints |-> cps, ws |-> ws,
          world_statistics_checkpoints |-> wcps, res |-> "Ok"]
    ELSE IF Len(wcps) = 0
    THEN [cache |-> c, checkpoints |-> cps, ws |-> ws,
          world_statistics_checkpoints |-> wcps, res |-> "Panic"]
    ELSE [cache |-> revert_cache(c, cps[Len(cps)]),
          checkpoints |-> SubSeq(cps, 1, Len(cps) - 1),
          ws |-> wcps[Len(wcps)],
          world_statistics_checkpoints |-> wcps,
          res |-> "Ok"]

\* revert_to_checkpoint undoing with the oldest frame and snapshot instead of
\* the newest
revert_to_checkpoint_oldest(c, cps, ws, wcps) ==
    IF Len(cps) = 0 \/ Len(wcps) = 0
    THEN [cache |-> c, checkpoints |-> cps, ws |-> ws,
          world_statistics_checkpoints |-> wcps, res |-> "Ok"]
    ELSE [cache |-> revert_cache(c, cps[1]),
          checkpoints |-> SubSeq(cps, 1, Len(cps) - 1),
          ws |-> wcps[1],
          world_statistics_checkpoints |-> SubSeq(wcps, 1, Len(wcps) - 1),
          res |-> "Ok"]

\* State::revert_to_checkpoint
revert_to_checkpoint(c, cps, ws, wcps) ==
    IF Len(cps) = 0
    THEN [cache |-> c, checkpoints |-> cps, ws |-> ws,
          world_statistics_checkpoints |-> wcps, res |-> "Ok"]
    ELSE IF Len(wcps) = 0
    THEN [cache |-> c, checkpoints |-> cps, ws |-> ws,
          world_statistics_checkpoints |-> wcps, res |-> "Panic"]
    ELSE [cache |-> revert_cache(c, cps[Len(cps)]),
          checkpoints |-> SubSeq(cps, 1, Len(cps) - 1),
          ws |-> wcps[Len(wcps)],
          world_statistics_checkpoints |-> SubSeq(wcps, 1, Len(wcps) - 1),
          res |-> "Ok"]

----------------------------------------------------------------------------
(* World statistics and the store's counters *)

\* State::new, for an initialized store
State_new(stat) ==
    [total_issued_tokens |-> stat.total_issued_tokens,
     total_staking_tokens |-> stat.total_staking_tokens,
     total_storage_tokens |-> stat.total_storage_tokens,
     interest_rate_per_block |-> stat.annual_interest_rate \div BLOCKS_PER_YEAR,
     accumulate_interest_rate |-> stat.accumulate_interest_rate,
     total_pos_staking_tokens |-> stat.total_pos_staking_tokens,
     distributable_pos_interest |-> stat.distributable_pos_interest,
     last_distribute_block |-> stat.last_distribute_block,
     total_evm_tokens |-> stat.total_evm_tokens,
     used_storage_points |-> stat.used_storage_points,
     converted_storage_points |-> stat.converted_storage_points]

\* the counters State::new asserts to be zero when the store is not initialized
asserted_zero(stat) ==
    /\ stat.annual_interest_rate = 0
    /\ stat.accumulate_interest_rate = 0
    /\ stat.total_issued_tokens = 0
    /\ stat.total_staking_tokens = 0
    /\ stat.total_storage_tokens = 0
    /\ stat.total_pos_staking_tokens = 0
    /\ stat.distributable_pos_interest = 0
    /\ stat.last_distribute_block = 0

\* State::new: stat is what the getters of the store return, is_initialized
\* what db.is_initialized() answers
State_new_from(stat, is_initialized) ==
    IF is_initialized
    THEN [res |-> "Ok", ws |-> State_new(stat)]
    ELSE IF ~asserted_zero(stat)
    THEN [res |-> "Panic", ws |-> State_new(stat)]
    ELSE [res |-> "Ok",
          ws |-> [total_issued_tokens |-> 0,
                  total_staking_tokens |-> 0,
                  total_storage_tokens |-> 0,
                  interest_rate_per_block |-> INITIAL_INTEREST_RATE_PER_BLOCK,
                  accumulate_interest_rate |-> ACCUMULATED_INTEREST_RATE_SCALE,
                  total_pos_staking_tokens |-> 0,
                  distributable_pos_interest |-> 0,
                  last_distribute_block |-> 0,
                  total_evm_tokens |-> 0,
                  used_storage_points |-> 0,
                  converted_storage_points |-> 0]]

\* State::commit_world_statistics: the counters it writes
commit_world_statistics(ws) ==
    [annual_interest_rate |-> ws.interest_rate_per_block * BLOCKS_PER_YEAR,
     accumulate_interest_rate |-> ws.accumulate_interest_rate,
     total_issued_tokens |-> ws.total_issued_tokens,
     total_staking_tokens |-> ws.total_staking_tokens,
     total_storage_tokens |-> ws.total_storage_tokens,
     total_pos_staking_tokens |-> ws.total_pos_staking_tokens,
     distributable_pos_interest |-> ws.distributable_pos_interest,
     last_distribute_block |-> ws.last_distribute_block,
     total_evm_tokens |-> ws.total_evm_tokens,
     used_storage_points |-> ws.used_storage_points,
     converted_storage_points |-> ws.converted_storage_points]

----------------------------------------------------------------------------
(* compute_state_root *)

EmptyCache == [a \in AllAddresses |-> None]

\* the records compute_state_root appends to accounts_to_notify for the
\* drained entries of addresses a and above, in ascending address order
RECURSIVE notify_records(_, _)
notify_records(c, a) ==
    IF a \notin AllAddresses
    THEN <<>>
    ELSE LET here ==
                IF c[a] = None \/ c[a][1].account = None
                THEN <<>>
                ELSE IF removed_without_update(c[a][1].account[1])
                THEN <<[ok |-> FALSE, address |-> a, account |-> None]>>
                ELSE <<[ok |-> TRUE, address |-> a,
                        account |-> Some(as_account(c[a][1].account[1]))]>>
         IN  here \o notify_records(c, a + 1)

\* OverlayAccount::commit for every drained entry that is not killed, then
\* State::recycle_storage for the killed addresses: the accounts stored
commit_accounts(c, store) ==
    [a \in AllAddresses |->
        IF c[a] = None \/ c[a][1].account = None
        THEN store[a]
        ELSE IF removed_without_update(c[a][1].account[1])
        THEN None
        ELSE Some(as_account(c[a][1].account[1]))]

\* the entries are marked Committed where they are, in the cache
committed_in_place(c) ==
    [a \in AllAddresses |->
        IF c[a] = None THEN None
        ELSE Some([c[a][1] EXCEPT !.state = "Committed"])]

\* the cache after `self.cache.get_mut().drain()`: no entry is left in it; the
\* drained entries, which the loop marks Committed, are in a local vector
cache_drained(c) == EmptyCache

\* HashMap::drain: every cached entry once, in an order the map chooses
RECURSIVE orders(_)
orders(keys) ==
    IF keys = {} THEN {<<>>}
    ELSE UNION {{<<a>> \o rest : rest \in orders(keys \ {a})} : a \in keys}

drain(c) == orders({a \in AllAddresses : c[a] # None})

\* the drained sequence as it was collected, not sorted
unsorted(order) == order

\* Vec::insert into an ascending sequence, before the first larger address
RECURSIVE insert_sorted(_, _)
insert_sorted(a, sorted) ==
    IF sorted = <<>> THEN <<a>>
    ELSE IF a <= Head(sorted) THEN <<a>> \o sorted
    ELSE <<Head(sorted)>> \o insert_sorted(a, Tail(sorted))

RECURSIVE insertion_sort(_)
insertion_sort(order) ==
    IF order = <<>> THEN <<>>
    ELSE insert_sorted(Head(order), insertion_sort(Tail(order)))

\* sorted_dirty_accounts.sort_by(|a, b| a.0.cmp(&b.0))
sort_by_address(order) == insertion_sort(order)

\* the loop of compute_state_root over the sorted entries: w holds the store,
\* its write log, accounts_to_notify and killed_addresses
RECURSIVE commit_loop(_, _, _)
commit_loop(sorted, c, w) ==
    IF sorted = <<>>
    THEN w
    ELSE LET address == Head(sorted)
             entry == c[address][1]
             next ==
                IF entry.account = None
                THEN w
                ELSE IF removed_without_update(entry.account[1])
                THEN [w EXCEPT
                        !.killed_addresses = Append(@, address),
                        !.accounts_to_notify =
                            Append(@, [ok |-> FALSE, address |-> address,
                                       account |-> None])]
                ELSE [w EXCEPT
                        !.db[address] = Some(as_account(entry.account[1])),
                        !.db_log = Append(@, [write |-> "commit", address |-> address]),
                        !.accounts_to_notify =
                            Append(@, [ok |-> TRUE, address |-> address,
                                       account |-> Some(as_account(entry.account[1]))])]
         IN  commit_loop(Tail(sorted), c, next)

\* State::recycle_storage: the killed accounts are deleted from the store
RECURSIVE recycle_storage(_, _)
recycle_storage(killed_addresses, w) ==
    IF killed_addresses = <<>>
    THEN w
    ELSE recycle_storage(
            Tail(killed_addresses),
            [w EXCEPT !.db[Head(killed_addresses)] = None,
                      !.db_log = Append(@, [write |-> "delete",
                                            address |-> Head(killed_addresses)])])

\* the body of compute_state_root after the drain: sort, commit each entry,
\* recycle the killed addresses, then write the world statistics
root_writes(order, c, store, notify) ==
    LET sorted_dirty_accounts == sort_by_address(order)
        looped == commit_loop(sorted_dirty_accounts, c,
                              [db |-> store, db_log |-> <<>>,
                               accounts_to_notify |-> notify,
                               killed_addresses |-> <<>>])
        recycled == recycle_storage(looped.killed_addresses, looped)
    IN  [recycled EXCEPT
            !.db_log = Append(@, [write |-> "commit_world_statistics",
                                  address |-> ZeroAddress])]

\* the store's state root, a function of its contents
StateRoot == <<db, db_stat>>

----------------------------------------------------------------------------
(* PoS interest *)

\* u64::sqrt / U256 floor square root
isqrt(n) == CHOOSE r \in 0..n : r * r <= n /\ n < (r + 1) * (r + 1)

RECURSIVE bits(_)
bits(n) == IF n = 0 THEN 0 ELSE 1 + bits(n \div 2)

RECURSIVE pow2(_)
pow2(k) == IF k = 0 THEN 1 ELSE 2 * pow2(k - 1)

\* the widths of u64 and of U256, scaled down
U64_BITS == 4
U256_BITS == 4 * U64_BITS

\* a refinement that lowers the root by one
creep(input, root) == root - 1

\* one round of the loop of sqrt_u256
newton_step(input, root) == (input \div root + root) \div 2

RECURSIVE newton(_, _)
newton(input, root) ==
    IF root * root > input
    THEN newton(input, newton_step(input, root))
    ELSE root

\* sqrt_u256, step 1: the approximate root
init_root(input) ==
    LET significant_bits == U64_BITS - (bits(input) % 2)
        rest_bits == bits(input) - significant_bits
        significant_word == input \div pow2(rest_bits)
    IN  (isqrt(significant_word) + 1) * pow2(rest_bits \div 2)

\* no root taken
no_root(input) == input

\* sqrt_u256
sqrt_u256(input) ==
    IF bits(input) <= U64_BITS
    THEN isqrt(input)
    ELSE newton(input, init_root(input))

----------------------------------------------------------------------------
(* The initial state: State::new over an initialized store *)

\* balance of the one stored ordinary account
InitBalance == 2

InitDb ==
    [a \in AllAddresses |->
        IF a = 1 THEN Some(Account(InitBalance, 0, 0, 1, 1))
        ELSE IF a = POS_REGISTER_CONTRACT_ADDRESS THEN Some(Account(0, 1, <<NumAddr>>, 0, 0))
        ELSE IF a = SPONSOR_WHITELIST_CONTROL_CONTRACT_ADDRESS THEN Some(Account(0, 1, 0, 0, 0))
        ELSE None]

InitDbStat ==
    [annual_interest_rate |-> INITIAL_INTEREST_RATE_PER_BLOCK * BLOCKS_PER_YEAR,
     accumulate_interest_rate |-> ACCUMULATED_INTEREST_RATE_SCALE,
     total_issued_tokens |-> InitBalance + 2,
     total_staking_tokens |-> 1,
     total_storage_tokens |-> 1,
     total_pos_staking_tokens |-> 1,
     distributable_pos_interest |-> 0,
     last_distribute_block |-> 0,
     total_evm_tokens |-> 0,
     used_storage_points |-> 0,
     converted_storage_points |-> 0]

NoShadow == [cache |-> EmptyCache, ws |-> State_new(InitDbStat),
             valid |-> FALSE, cycles |-> 0]

Init ==
    /\ db = InitDb
    /\ db_stat = InitDbStat
    /\ db_epoch = 0
    /\ db_log = <<>>
    /\ accounts_to_notify = <<>>
    /\ txpool = <<>>
    /\ cache = EmptyCache
    /\ world_statistics = State_new(InitDbStat)
    /\ world_statistics_checkpoints = <<>>
    /\ checkpoints = <<>>
    /\ ret = [op |-> "new", res |-> "Ok", val |-> 0, touched |-> {}]
    /\ ncalls = 0
    /\ nroots = 0
    /\ pre = <<>>
    /\ last_pre = <<>>
    /\ shadow = [cache |-> EmptyCache, ws |-> State_new(InitDbStat),
                 valid |-> TRUE, cycles |-> 0]
    /\ since_root = "none"
    /\ total_burnt = 0

Running == ret.res # "Panic"

----------------------------------------------------------------------------
(* Actions: one per call of the State API *)

\* State::checkpoint
Call_checkpoint ==
    /\ Running
    /\ Len(checkpoints) < MaxDepth
    /\ LET r == checkpoint(checkpoints, world_statistics,
                           world_statistics_checkpoints)
       IN  /\ world_statistics_checkpoints' = r.world_statistics_checkpoints
           /\ checkpoints' = r.checkpoints
           /\ ret' = [op |-> "checkpoint", res |-> "Ok", val |-> r.index,
                      touched |-> {}]
    /\ pre' = Append(pre, [view |-> View(cache), ws |-> world_statistics,
                           touched |-> {}, merged |-> FALSE,
                           both |-> {}, first_inner |-> {}, burnt |-> total_burnt])
    /\ last_pre' = <<>>
    /\ since_root' = "none"
    /\ UNCHANGED total_burnt
    /\ UNCHANGED <<db, db_stat, db_epoch, db_log, accounts_to_notify, txpool, cache,
                   world_statistics, ncalls, nroots, shadow>>

\* State::discard_checkpoint
Call_discard_checkpoint ==
    /\ Running
    /\ LET d == discard_checkpoint(checkpoints, world_statistics_checkpoints)
       IN  /\ checkpoints' = d.checkpoints
           /\ world_statistics_checkpoints' = d.world_statistics_checkpoints
    /\ ret' = [op |-> "discard_checkpoint", res |-> "Ok", val |-> 0,
               touched |-> {}]
    /\ pre' = IF Len(pre) = 0 THEN pre
              ELSE IF Len(pre) = 1 THEN <<>>
              ELSE [SubSeq(pre, 1, Len(pre) - 1) EXCEPT ![Len(pre) - 1] =
                        [@ EXCEPT !.touched = @ \cup pre[Len(pre)].touched,
                                  !.merged = TRUE,
                                  !.both = @ \cup (pre[Len(pre) - 1].touched
                                                    \cap pre[Len(pre)].touched),
                                  !.first_inner = @ \cup (pre[Len(pre)].touched
                                                    \ pre[Len(pre) - 1].touched)]]
    /\ last_pre' = <<>>
    /\ shadow' = IF shadow.valid /\ Len(pre) = 1 /\ pre[1].touched # {}
                 THEN [shadow EXCEPT !.cycles = Min(@ + 1, 2)]
                 ELSE shadow
    /\ since_root' = "none"
    /\ UNCHANGED <<db, db_stat, db_epoch, db_log, accounts_to_notify, txpool, cache,
                   world_statistics, ncalls, nroots, total_burnt>>

\* State::revert_to_checkpoint
Call_revert_to_checkpoint ==
    /\ Running
    /\ LET r == revert_to_checkpoint(cache, checkpoints, world_statistics,
                                     world_statistics_checkpoints)
       IN  /\ cache' = r.cache
           /\ checkpoints' = r.checkpoints
           /\ world_statistics' = r.ws
           /\ world_statistics_checkpoints' = r.world_statistics_checkpoints
           /\ ret' = [op |-> "revert_to_checkpoint", res |-> r.res, val |-> 0,
                      touched |-> {}]
    /\ pre' = IF Len(pre) = 0 THEN pre ELSE SubSeq(pre, 1, Len(pre) - 1)
    /\ last_pre' = IF Len(pre) = 0 THEN <<>>
                   ELSE <<pre[Len(pre)],
                          [view |-> View(cache), ws |-> world_statistics]>>
    /\ shadow' = IF Len(pre) = 0 THEN shadow ELSE NoShadow
    /\ total_burnt' = IF Len(pre) = 0 THEN total_burnt ELSE pre[Len(pre)].burnt
    /\ since_root' = "none"
    /\ UNCHANGED <<db, db_stat, db_epoch, db_log, accounts_to_notify, txpool, ncalls, nroots>>

\* a call that mutates accounts: rec is the record of the call kept in ret, e
\* the call's effect on the state, se its effect on the checkpoint-free copy
Call_recorded(rec, e, se) ==
    /\ Running
    /\ ncalls < MaxCalls
    /\ ncalls' = ncalls + 1
    /\ ret' = rec
    /\ IF e.res = "Panic"
       THEN UNCHANGED <<cache, checkpoints, world_statistics, pre, shadow, total_burnt>>
       ELSE /\ cache' = e.cache
            /\ total_burnt' = total_burnt + e.burnt
            /\ checkpoints' = e.checkpoints
            /\ world_statistics' = e.ws
            /\ pre' = IF Len(pre) = 0 THEN pre
                      ELSE [pre EXCEPT ![Len(pre)].touched = @ \cup e.touched]
            /\ shadow' = IF shadow.valid
                         THEN [shadow EXCEPT !.cache = se.cache, !.ws = se.ws]
                         ELSE shadow
    /\ last_pre' = <<>>
    /\ since_root' = "none"
    /\ UNCHANGED <<db, db_stat, db_epoch, db_log, accounts_to_notify, txpool,
                   world_statistics_checkpoints, nroots>>

Call(op, e, se) ==
    Call_recorded([op |-> op, res |-> e.res, val |-> e.val, touched |-> e.touched],
                  e, se)

\* a call whose arguments are kept in ret with its result
Call_with(op, args, e, se) ==
    Call_recorded([op |-> op, res |-> e.res, val |-> e.val, touched |-> e.touched]
                    @@ args,
                  e, se)

Call_add_balance(a, by, mode) ==
    Call("add_balance",
         add_balance(cache, checkpoints, world_statistics, a, by, mode),
         add_balance(shadow.cache, <<>>, shadow.ws, a, by, mode))

\* the caller subtracts no more than the balance it has checked
Call_sub_balance(a, by, mode) ==
    /\ by <= balance(cache, a) \/ ~exists(cache, a)
    /\ Call("sub_balance",
            sub_balance(cache, checkpoints, world_statistics, a, by, mode),
            sub_balance(shadow.cache, <<>>, shadow.ws, a, by, mode))

Call_set_nonce(a, nonce) ==
    Call("set_nonce",
         set_nonce(cache, checkpoints, world_statistics, a, nonce),
         set_nonce(shadow.cache, <<>>, shadow.ws, a, nonce))

Call_set_storage(a, value) ==
    Call("set_storage",
         set_storage(cache, checkpoints, world_statistics, a, value),
         set_storage(shadow.cache, <<>>, shadow.ws, a, value))

Call_new_contract(a, bal) ==
    Call("new_contract",
         new_contract(cache, checkpoints, world_statistics, a, bal),
         new_contract(shadow.cache, <<>>, shadow.ws, a, bal))

Call_remove_contract(a) ==
    Call("remove_contract",
         remove_contract(cache, checkpoints, world_statistics, a),
         remove_contract(shadow.cache, <<>>, shadow.ws, a))

\* the caller deposits no more than the balance it has checked
Call_deposit(a, amount) ==
    /\ amount <= balance(cache, a) \/ ~exists(cache, a)
    /\ Call("deposit",
            deposit(cache, checkpoints, world_statistics, a, amount),
            deposit(shadow.cache, <<>>, shadow.ws, a, amount))

\* the caller withdraws no more than the staking balance it has checked
Call_withdraw(a, amount) ==
    /\ amount <= staking_balance(cache, a) \/ ~exists(cache, a)
    /\ Call_with("withdraw", [addr |-> a, amount |-> amount],
                 withdraw(cache, checkpoints, world_statistics, a, amount),
                 withdraw(shadow.cache, <<>>, shadow.ws, a, amount))

Call_settle_collateral_for_address(a, inc, sub, dry_run) ==
    /\ inc + sub > 0
    /\ Call("settle_collateral_for_address",
            settle_collateral_for_address(cache, checkpoints, world_statistics,
                                          a, inc, sub, dry_run, FALSE),
            settle_collateral_for_address(shadow.cache, <<>>, shadow.ws,
                                          a, inc, sub, dry_run, FALSE))

\* State::balance, a query
Call_balance(a) ==
    /\ Running
    /\ ncalls < MaxCalls
    /\ ncalls' = ncalls + 1
    /\ cache' = read_account_ext(cache, a)
    /\ ret' = [op |-> "balance", res |-> "Ok", val |-> balance(cache, a),
               touched |-> {}]
    /\ shadow' = IF shadow.valid
                 THEN [shadow EXCEPT !.cache = read_account_ext(shadow.cache, a)]
                 ELSE shadow
    /\ last_pre' = <<>>
    /\ UNCHANGED <<db, db_stat, db_epoch, db_log, accounts_to_notify, txpool, world_statistics,
                   world_statistics_checkpoints, checkpoints, pre,
                   nroots, since_root, total_burnt>>

----------------------------------------------------------------------------
(* Structural calls: they run outside every checkpoint scope *)

\* a structural call whose assertion failed: the process aborts
Abort(op) ==
    /\ ret' = [op |-> op, res |-> "Panic", val |-> 0, touched |-> {}]
    /\ UNCHANGED <<db, db_stat, db_epoch, db_log, accounts_to_notify, txpool, cache,
                   world_statistics, world_statistics_checkpoints, checkpoints,
                   pre, shadow, since_root>>

\* no record is copied
no_accounts(notify) == <<>>

\* commit_and_notify: the updated accounts of accounts_to_notify, the records
\* of deleted addresses left out
accounts_for_txpool(notify) == SelectSeq(notify, LAMBDA updated_or_deleted : updated_or_deleted.ok)

\* a notification made by the caller itself, before it returns
notify_now(pool, accounts) == Append(pool, [accounts |-> accounts, delivered |-> TRUE])

\* std::thread::Builder::spawn: a thread that has the accounts and has not run
\* yet; its JoinHandle is dropped
spawn(pool, accounts) == Append(pool, [accounts |-> accounts, delivered |-> FALSE])

\* State::compute_state_root; with persist it is State::commit, which then has
\* the store persist the epoch; with notify it is State::commit_and_notify,
\* which then spawns the thread that notifies the transaction pool
compute_state_root(op, persist, notify) ==
    /\ Running
    /\ nroots < MaxRoots
    /\ nroots' = nroots + 1
    /\ UNCHANGED <<ncalls, total_burnt>>
    /\ last_pre' = <<>>
    /\ IF Len(checkpoints) # 0 \/ Len(world_statistics_checkpoints) # 0
       THEN Abort(op)
       ELSE /\ cache' = cache_drained(cache)
            /\ \E order \in drain(cache) :
                    LET w == root_writes(order, cache, db, accounts_to_notify)
                    IN  /\ accounts_to_notify' = w.accounts_to_notify
                        /\ txpool' = IF notify
                                     THEN spawn(txpool, accounts_for_txpool(w.accounts_to_notify))
                                     ELSE txpool
                        /\ db' = w.db
                        /\ db_log' = w.db_log
            /\ db_stat' = commit_world_statistics(world_statistics)
            /\ db_epoch' = IF persist THEN db_epoch + 1 ELSE db_epoch
            /\ ret' = [op |-> op, res |-> "Ok", val |-> 0, touched |-> {}]
            /\ shadow' = NoShadow
            /\ since_root' = "clean"
            /\ UNCHANGED <<world_statistics, world_statistics_checkpoints,
                           checkpoints, pre>>

Call_compute_state_root == compute_state_root("compute_state_root", FALSE, FALSE)

Call_commit == compute_state_root("commit", TRUE, FALSE)

\* State::commit returns an error of the store: the cache is drained and the
\* first failed_at entries of the sorted vector are committed; the `?` of
\* commit_and_notify returns the error
commit_fails(op, failed_at) ==
    /\ Running
    /\ nroots < MaxRoots
    /\ nroots' = nroots + 1
    /\ Len(checkpoints) = 0 /\ Len(world_statistics_checkpoints) = 0
    /\ last_pre' = <<>>
    /\ cache' = cache_drained(cache)
    /\ \E order \in drain(cache) :
            /\ failed_at <= Len(order)
            /\ LET w == commit_loop(SubSeq(sort_by_address(order), 1, failed_at), cache,
                                    [db |-> db, db_log |-> <<>>,
                                     accounts_to_notify |-> accounts_to_notify,
                                     killed_addresses |-> <<>>])
               IN  /\ accounts_to_notify' = w.accounts_to_notify
                   /\ db' = w.db
                   /\ db_log' = w.db_log
    /\ ret' = [op |-> op, res |-> "Err", val |-> 0, touched |-> {}]
    /\ shadow' = NoShadow
    /\ since_root' = "none"
    /\ UNCHANGED <<db_stat, db_epoch, txpool, world_statistics,
                   world_statistics_checkpoints, checkpoints, pre, ncalls,
                   total_burnt>>

\* State::commit_and_notify
Call_commit_and_notify ==
    \/ compute_state_root("commit_and_notify", TRUE, TRUE)
    \/ \E failed_at \in 0..NumAddr : commit_fails("commit_and_notify", failed_at)

\* the spawned thread runs: txpool_clone.notify_modified_accounts
Txpool_notify ==
    /\ \E i \in 1..Len(txpool) :
            /\ ~txpool[i].delivered
            /\ txpool' = [txpool EXCEPT ![i].delivered = TRUE]
    /\ UNCHANGED <<db, db_stat, db_epoch, db_log, accounts_to_notify, cache,
                   world_statistics, world_statistics_checkpoints, checkpoints,
                   ret, ncalls, nroots, pre, last_pre, shadow, since_root,
                   total_burnt>>

\* a structural call that changes the world statistics and the cache only
Structural_recorded(rec, e) ==
    /\ Running
    /\ ncalls < MaxCalls
    /\ ncalls' = ncalls + 1
    /\ UNCHANGED <<nroots, total_burnt>>
    /\ last_pre' = <<>>
    /\ IF e.res = "Panic"
       THEN Abort(rec.op)
       ELSE /\ cache' = e.cache
            /\ world_statistics' = e.ws
            /\ ret' = rec
            /\ shadow' = NoShadow
            /\ since_root' = "none"
            /\ UNCHANGED <<db, db_stat, db_epoch, db_log, accounts_to_notify, txpool,
                           world_statistics_checkpoints, checkpoints, pre>>

Structural(op, e) ==
    Structural_recorded([op |-> op, res |-> e.res, val |-> e.val,
                         touched |-> e.touched], e)

\* State::bump_block_number_accumulate_interest
bump_block_number_accumulate_interest(c, ws, wcps) ==
    IF Len(wcps) # 0
    THEN Eff(c, <<>>, ws, "Panic", 0, {})
    ELSE Eff(c, <<>>,
             [ws EXCEPT !.accumulate_interest_rate =
                (@ * (INTEREST_RATE_PER_BLOCK_SCALE + ws.interest_rate_per_block))
                    \div INTEREST_RATE_PER_BLOCK_SCALE],
             "Ok", 0, {})

\* an accrual that is paid out at once: the total issued grows with the pool
inc_distributable_pos_interest_issued(c, ws, wcps, current_block_number) ==
    Eff(c, <<>>,
        [ws EXCEPT !.distributable_pos_interest = @ + 1,
                   !.total_issued_tokens = @ + 1],
        "Ok", 0, {})

\* State::inc_distributable_pos_interest
inc_distributable_pos_interest(c, ws, wcps, current_block_number) ==
    IF Len(wcps) # 0
    THEN Eff(c, <<>>, ws, "Panic", 0, {})
    ELSE IF current_block_number > ws.last_distribute_block + BLOCKS_PER_HOUR
    THEN Eff(c, <<>>, ws, "Ok", 0, {})
    ELSE IF ws.total_pos_staking_tokens = 0
    THEN Eff(c, <<>>, ws, "Ok", 0, {})
    ELSE LET c1 == read_account_ext(c, ZeroAddress)
             c2 == read_account_ext(c1, genesis_contract_address_four_year)
             c3 == read_account_ext(c2, genesis_contract_address_two_year)
             locked == balance(c, ZeroAddress)
                        + balance(c1, genesis_contract_address_four_year)
                        + balance(c2, genesis_contract_address_two_year)
             total_circulating_tokens == ws.total_issued_tokens - locked
             interest_amount ==
                sqrt_u256(total_circulating_tokens * ws.total_pos_staking_tokens
                          * ws.interest_rate_per_block * ws.interest_rate_per_block)
                \div (BLOCKS_PER_YEAR * INVERSE_INTEREST_RATE
                        * INITIAL_INTEREST_RATE_PER_BLOCK)
         IN  IF ws.total_issued_tokens < locked
             THEN Eff(c, <<>>, ws, "Panic", 0, {})
             ELSE Eff(c3, <<>>,
                      [ws EXCEPT !.distributable_pos_interest = @ + interest_amount],
                      "Ok", 0, {})

\* a payout that is credited to the balance only
add_pos_interest_balance_only(c, ws, a, interest, cleanup_mode) ==
    add_balance(c, <<>>, ws, a, interest, cleanup_mode)

\* State::add_pos_interest, called with no checkpoint open
add_pos_interest(c, ws, a, interest, cleanup_mode) ==
    LET e == add_balance(c, <<>>, [ws EXCEPT !.total_issued_tokens = @ + interest],
                         a, interest, cleanup_mode)
        r == require_or_set(e.cache, <<>>, a, "new_basic")
    IN  Eff(r.cache, <<>>, e.ws, "Ok", 0, {a})

\* the word the POS register keeps at address_entry(identifier)
address_entry_word(c, identifier) ==
    IF identifier \in DOMAIN storage_at(c, POS_REGISTER_CONTRACT_ADDRESS)
    THEN storage_at(c, POS_REGISTER_CONTRACT_ADDRESS)[identifier]
    ELSE 0

\* the loop of State::distribute_pos_interest over the (identifier, points)
\* pairs; account_rewards is the vector it pushes to
RECURSIVE distribute_loop(_, _, _, _, _)
distribute_loop(c, ws, pos_points, distributable_pos_interest, account_rewards) ==
    IF pos_points = <<>>
    THEN Eff(c, <<>>, ws, "Ok", 0, {}) @@ [account_rewards |-> account_rewards]
    ELSE LET identifier == Head(pos_points)[1]
             points == Head(pos_points)[2]
             address == AddressFromWord(address_entry_word(c, identifier))
             c1 == read_account_ext(c, POS_REGISTER_CONTRACT_ADDRESS)
             interest == (distributable_pos_interest * points) \div MAX_TERM_POINTS
             e == add_pos_interest(c1, ws, address, interest, "ForceCreate")
         IN  distribute_loop(e.cache, e.ws, Tail(pos_points),
                             distributable_pos_interest,
                             Append(account_rewards, <<address, identifier, interest>>))

\* distribute_pos_interest without its assertion
distribute_pos_interest_unchecked(c, ws, wcps, pos_points, current_block_number) ==
    LET e == distribute_loop(c, ws, pos_points, ws.distributable_pos_interest, <<>>)
    IN  Eff(e.cache, <<>>,
            [e.ws EXCEPT !.distributable_pos_interest = 0,
                         !.last_distribute_block = current_block_number],
            "Ok", 0, {}) @@ [account_rewards |-> e.account_rewards]

\* State::distribute_pos_interest
distribute_pos_interest(c, ws, wcps, pos_points, current_block_number) ==
    IF Len(wcps) # 0
    THEN Eff(c, <<>>, ws, "Panic", 0, {}) @@ [account_rewards |-> <<>>]
    ELSE LET e == distribute_loop(c, ws, pos_points, ws.distributable_pos_interest, <<>>)
         IN  Eff(e.cache, <<>>,
                 [e.ws EXCEPT !.distributable_pos_interest = 0,
                              !.last_distribute_block = current_block_number],
                 "Ok", 0, {}) @@ [account_rewards |-> e.account_rewards]

Call_bump_block_number_accumulate_interest ==
    Structural("bump_block_number_accumulate_interest",
               bump_block_number_accumulate_interest(
                   cache, world_statistics, world_statistics_checkpoints))

Call_inc_distributable_pos_interest(block) ==
    Structural("inc_distributable_pos_interest",
               inc_distributable_pos_interest(
                   cache, world_statistics, world_statistics_checkpoints, block))

\* the reward points of a term: none, or some for the one registered identifier
PointLists == {<<>>} \cup {<< <<1, p>> >> : p \in 1..MAX_TERM_POINTS}

Call_distribute_pos_interest(pos_points, block) ==
    Structural("distribute_pos_interest",
               distribute_pos_interest(
                   cache, world_statistics, world_statistics_checkpoints,
                   pos_points, block))

----------------------------------------------------------------------------
(* The specification *)

Blocks == 0..MaxBlock

Next ==
    \/ Call_checkpoint
    \/ Call_discard_checkpoint
    \/ Call_revert_to_checkpoint
    \/ \E a \in Addresses, by \in Amounts, mode \in CleanupModes :
            Call_add_balance(a, by, mode)
    \/ \E a \in Addresses, by \in Amounts, mode \in CleanupModes :
            Call_sub_balance(a, by, mode)
    \/ \E a \in Addresses, nonce \in Amounts : Call_set_nonce(a, nonce)
    \/ \E a \in Addresses, value \in Amounts : Call_set_storage(a, value)
    \/ \E a \in Addresses, bal \in Amounts : Call_new_contract(a, bal)
    \/ \E a \in Addresses : Call_remove_contract(a)
    \/ \E a \in Addresses, amount \in Amounts : Call_deposit(a, amount)
    \/ \E a \in Addresses, amount \in Amounts : Call_withdraw(a, amount)
    \/ \E a \in Addresses, inc \in Amounts, sub \in Amounts, dry_run \in BOOLEAN :
            Call_settle_collateral_for_address(a, inc, sub, dry_run)
    \/ \E a \in Addresses : Call_balance(a)
    \/ Call_compute_state_root
    \/ Call_commit
    \/ Call_bump_block_number_accumulate_interest
    \/ \E block \in Blocks : Call_inc_distributable_pos_interest(block)
    \/ \E pos_points \in PointLists, block \in Blocks :
            Call_distribute_pos_interest(pos_points, block)

\* every call of the API in any order
Spec == Init /\ [][Next]_vars

\* the calls on accounts and the checkpoint scopes around them, between two
\* roots
NextScopes ==
    \/ Call_checkpoint
    \/ Call_discard_checkpoint
    \/ Call_revert_to_checkpoint
    \/ \E a \in Addresses, by \in Amounts, mode \in CleanupModes :
            Call_add_balance(a, by, mode)
    \/ \E a \in Addresses, by \in Amounts, mode \in CleanupModes :
            Call_sub_balance(a, by, mode)
    \/ \E a \in Addresses, nonce \in Amounts : Call_set_nonce(a, nonce)
    \/ \E a \in Addresses, value \in Amounts : Call_set_storage(a, value)
    \/ \E a \in Addresses, bal \in Amounts : Call_new_contract(a, bal)
    \/ \E a \in Addresses : Call_remove_contract(a)
    \/ \E a \in Addresses, amount \in Amounts : Call_deposit(a, amount)
    \/ \E a \in Addresses, amount \in Amounts : Call_withdraw(a, amount)
    \/ \E a \in Addresses, inc \in Amounts, sub \in Amounts, dry_run \in BOOLEAN :
            Call_settle_collateral_for_address(a, inc, sub, dry_run)
    \/ \E a \in Addresses : Call_balance(a)

SpecScopes == Init /\ [][NextScopes]_vars

\* the structural calls and the roots, after changes of balances and the
\* creation and removal of contracts, inside and outside checkpoint scopes
NextRoots ==
    \/ Call_checkpoint
    \/ Call_discard_checkpoint
    \/ Call_revert_to_checkpoint
    \/ \E a \in Addresses, by \in Amounts, mode \in CleanupModes :
            Call_add_balance(a, by, mode)
    \/ \E a \in Addresses, bal \in Amounts : Call_new_contract(a, bal)
    \/ \E a \in Addresses : Call_remove_contract(a)
    \/ \E a \in Addresses : Call_balance(a)
    \/ Call_compute_state_root
    \/ Call_commit
    \/ Call_bump_block_number_accumulate_interest
    \/ \E block \in Blocks : Call_inc_distributable_pos_interest(block)
    \/ \E pos_points \in PointLists, block \in Blocks :
            Call_distribute_pos_interest(pos_points, block)

SpecRoots == Init /\ [][NextRoots]_vars

----------------------------------------------------------------------------
(* The token economy: the same engine over a store that holds an ordinary   *)
(* account and a contract with code, both with collateral, driven by the    *)
(* balance, staking and collateral calls with no checkpoint open            *)

\* largest number of collateral units one settlement charges or refunds
MaxUnits == 2
\* largest number of collateral units a substate records for an address
MaxChange == 1
\* largest storage limit a transaction gives
MaxLimit == 3
\* number of transactions settled in one run
MaxBatches == 1

Units == 0..MaxUnits
Changes == 0..MaxChange
Limits == 0..MaxLimit

\* SponsorInfo.storage_points of the stored contract
InitStoragePoints ==
    {None, Some([unused |-> 1, used |-> 0]), Some([unused |-> 0, used |-> 1])}

EconomyDb(sponsor_balance, storage_points) ==
    [a \in AllAddresses |->
        IF a = 1 THEN Some(Account(1, 0, 0, 1, 1))
        ELSE IF a = NumAddr THEN Some(ContractAccount(sponsor_balance, 1, storage_points))
        ELSE IF a = POS_REGISTER_CONTRACT_ADDRESS THEN Some(Account(0, 1, <<1>>, 0, 0))
        ELSE IF a = SPONSOR_WHITELIST_CONTROL_CONTRACT_ADDRESS THEN Some(Account(0, 1, 0, 0, 0))
        ELSE None]

\* the tokens an account holds: balance, staking, token collateral and the
\* sponsor balance for collateral
holdings(acc) ==
    acc.balance + acc.staking_balance + acc.collateral_for_storage
        + acc.sponsor_balance_for_collateral

token_collateral(acc) == acc.collateral_for_storage

staking(acc) == acc.staking_balance

points_in_use(acc) ==
    IF acc.storage_points = None THEN 0 ELSE acc.storage_points[1].used

\* one part of an account, by name
part_of(acc, part) ==
    CASE part = "holdings" -> holdings(acc)
      [] part = "token_collateral" -> token_collateral(acc)
      [] part = "staking" -> staking(acc)
      [] part = "points_in_use" -> points_in_use(acc)

RECURSIVE sum_from(_, _)
sum_from(amounts, a) ==
    IF a \notin AllAddresses THEN 0
    ELSE amounts[a] + sum_from(amounts, a + 1)

\* the sum of one part of every account of a store or a view
sum_over(store, part) ==
    sum_from([a \in AllAddresses |->
                IF store[a] = None THEN 0 ELSE part_of(store[a][1], part)], 0)

\* the counters of a store whose aggregate agrees with its accounts
EconomyDbStat(store) ==
    [InitDbStat EXCEPT
        !.total_issued_tokens = sum_over(store, "holdings"),
        !.total_staking_tokens = sum_over(store, "staking"),
        !.total_storage_tokens = sum_over(store, "token_collateral"),
        !.used_storage_points = sum_over(store, "points_in_use")]

InitEconomy ==
    /\ \E sponsor_balance \in Amounts, storage_points \in InitStoragePoints :
            db = EconomyDb(sponsor_balance, storage_points)
    /\ db_stat = EconomyDbStat(db)
    /\ db_epoch = 0
    /\ db_log = <<>>
    /\ accounts_to_notify = <<>>
    /\ txpool = <<>>
    /\ cache = EmptyCache
    /\ world_statistics = State_new(db_stat)
    /\ world_statistics_checkpoints = <<>>
    /\ checkpoints = <<>>
    /\ ret = [op |-> "new", res |-> "Ok", val |-> 0, touched |-> {}]
    /\ ncalls = 0
    /\ nroots = 0
    /\ pre = <<>>
    /\ last_pre = <<>>
    /\ shadow = NoShadow
    /\ since_root = "none"
    /\ total_burnt = 0

\* the caller transfers no more than the balance it has checked
Call_transfer_balance(from, to, by, mode) ==
    /\ by <= balance(cache, from)
    /\ Call("transfer_balance",
            transfer_balance(cache, checkpoints, world_statistics, from, to, by, mode),
            transfer_balance(shadow.cache, <<>>, shadow.ws, from, to, by, mode))

\* State::settle_collateral_for_address with the substate's units for the
\* address and the flags of the call kept in ret
Call_settle_collateral(a, inc, sub, dry_run, cip107) ==
    Call_with("settle_collateral",
              [addr |-> a, inc |-> inc, sub |-> sub,
               dry_run_no_charge |-> dry_run, cip107 |-> cip107],
              settle_collateral_for_address(cache, checkpoints, world_statistics,
                                            a, inc, sub, dry_run, cip107),
              settle_collateral_for_address(shadow.cache, <<>>, shadow.ws,
                                            a, inc, sub, dry_run, cip107))

\* the substates: keys_for_collateral_changed() in the order it is iterated,
\* and the units recorded for each of its addresses
KeyOrders == UNION {orders(keys) : keys \in SUBSET Addresses}

Range(seq) == {seq[i] : i \in 1..Len(seq)}

\* a settlement of a whole substate: the number of addresses settled is kept
\* in ret with the arguments
Call_batch(op, args, e, se) ==
    Call_with(op, [settled |-> e.settled] @@ args, e, se)

\* State::collect_and_settle_collateral, called once at the end of a
\* transaction
Call_collect_and_settle_collateral(original_sender, storage_limit, keys, changes, dry_run, cip107) ==
    /\ ncalls < MaxBatches
    /\ Call_batch("collect_and_settle_collateral",
                  [original_sender |-> original_sender,
                   storage_limit |-> storage_limit,
                   keys |-> keys, changes |-> changes,
                   dry_run_no_charge |-> dry_run, cip107 |-> cip107],
                  collect_and_settle_collateral(
                      cache, checkpoints, world_statistics, original_sender,
                      storage_limit, keys, changes, dry_run, cip107),
                  collect_and_settle_collateral(
                      shadow.cache, <<>>, shadow.ws, original_sender,
                      storage_limit, keys, changes, dry_run, cip107))

NextEconomy ==
    \/ \E a \in Addresses, by \in Amounts, mode \in CleanupModes :
            Call_add_balance(a, by, mode)
    \/ \E a \in Addresses, by \in Amounts, mode \in CleanupModes :
            Call_sub_balance(a, by, mode)
    \/ \E from \in Addresses, to \in Addresses, by \in Amounts, mode \in CleanupModes :
            Call_transfer_balance(from, to, by, mode)
    \/ \E a \in Addresses, amount \in Amounts : Call_deposit(a, amount)
    \/ \E a \in Addresses, amount \in Amounts : Call_withdraw(a, amount)
    \/ \E a \in Addresses, inc \in Units, sub \in Units, dry_run \in BOOLEAN,
          cip107 \in BOOLEAN :
            Call_settle_collateral(a, inc, sub, dry_run, cip107)
    \/ \E block \in Blocks : Call_inc_distributable_pos_interest(block)
    \/ \E pos_points \in PointLists, block \in Blocks :
            Call_distribute_pos_interest(pos_points, block)
    \/ Call_compute_state_root

SpecEconomy == InitEconomy /\ [][NextEconomy]_vars

\* the settlement of one transaction's substate, and the root after it
NextBatch ==
    \/ \E original_sender \in Addresses, storage_limit \in Limits, keys \in KeyOrders,
          dry_run \in BOOLEAN, cip107 \in BOOLEAN :
            \E changes \in [Range(keys) -> Changes \X Changes] :
                Call_collect_and_settle_collateral(
                    original_sender, storage_limit, keys, changes, dry_run, cip107)
    \/ Call_compute_state_root

SpecBatch == InitEconomy /\ [][NextBatch]_vars

----------------------------------------------------------------------------
(* Queries *)

\* the queries of the State API that read an account with RequireCache::None
Queries == {"balance", "nonce", "exists", "storage_at", "staking_balance",
            "collateral_for_storage", "token_collateral_for_storage",
            "sponsor_balance_for_collateral",
            "avaliable_storage_point_for_collateral", "is_contract_with_code"}

\* what a query returns
query_value(q, c, a) ==
    CASE q = "balance" -> balance(c, a)
      [] q = "nonce" -> State_nonce(c, a)
      [] q = "exists" -> exists(c, a)
      [] q = "storage_at" -> storage_at(c, a)
      [] q = "staking_balance" -> staking_balance(c, a)
      [] q = "collateral_for_storage" -> collateral_for_storage(c, a)
      [] q = "token_collateral_for_storage" -> token_collateral_for_storage(c, a)
      [] q = "sponsor_balance_for_collateral" -> sponsor_balance_for_collateral(c, a)
      [] q = "avaliable_storage_point_for_collateral" ->
            avaliable_storage_point_for_collateral(c, a)
      [] q = "is_contract_with_code" -> is_contract_with_code(c, a)

\* the cache a query leaves: every query reads the account through
\* read_account_ext, but for is_contract_with_code of an address that is not
\* of contract type, which returns before it reads
query_cache(q, c, a) ==
    IF q = "is_contract_with_code" /\ a \notin ContractAddresses
    THEN c
    ELSE read_account_ext(c, a)

\* the addresses the queries are made of: the ordinary ones and one that no
\* store holds
QueryAddresses == Addresses \cup {ZeroAddress}

\* a query of the State API
Call_query(q, a) ==
    /\ Running
    /\ ncalls < MaxCalls
    /\ ncalls' = ncalls + 1
    /\ cache' = query_cache(q, cache, a)
    /\ ret' = [op |-> q, res |-> "Ok", val |-> query_value(q, cache, a),
               touched |-> {}, addr |-> a]
    /\ shadow' = IF shadow.valid
                 THEN [shadow EXCEPT !.cache = query_cache(q, shadow.cache, a)]
                 ELSE shadow
    /\ last_pre' = <<>>
    /\ UNCHANGED <<db, db_stat, db_epoch, db_log, accounts_to_notify, txpool, world_statistics,
                   world_statistics_checkpoints, checkpoints, pre,
                   nroots, since_root, total_burnt>>

NextQuery ==
    \/ Call_checkpoint
    \/ \E a \in Addresses, by \in Amounts, mode \in CleanupModes :
            Call_add_balance(a, by, mode)
    \/ \E a \in Addresses, nonce_ \in Amounts : Call_set_nonce(a, nonce_)
    \/ \E q \in Queries, a \in QueryAddresses : Call_query(q, a)

SpecQuery == InitEconomy /\ [][NextQuery]_vars

----------------------------------------------------------------------------
(* Construction *)

\* the counters a store may return to State::new, each zero or not
StoreCounters ==
    [annual_interest_rate : {0, BLOCKS_PER_YEAR},
     accumulate_interest_rate : {0, ACCUMULATED_INTEREST_RATE_SCALE},
     total_issued_tokens : {0, 1},
     total_staking_tokens : {0, 1},
     total_storage_tokens : {0, 1},
     total_pos_staking_tokens : {0, 1},
     distributable_pos_interest : {0, 1},
     last_distribute_block : {0, 1},
     total_evm_tokens : {0, 1},
     used_storage_points : {0, 1},
     converted_storage_points : {0, 1}]

\* a store with no account
EmptyDb == [a \in AllAddresses |-> None]

\* before State::new: a store, and no State yet
InitNew ==
    /\ db = EmptyDb
    /\ db_stat \in StoreCounters
    /\ db_epoch = 0
    /\ db_log = <<>>
    /\ accounts_to_notify = <<>>
    /\ txpool = <<>>
    /\ cache = EmptyCache
    /\ world_statistics = State_new(InitDbStat)
    /\ world_statistics_checkpoints = <<>>
    /\ checkpoints = <<>>
    /\ ret = [op |-> "open", res |-> "Ok", val |-> 0, touched |-> {}]
    /\ ncalls = 0
    /\ nroots = 0
    /\ pre = <<>>
    /\ last_pre = <<>>
    /\ shadow = NoShadow
    /\ since_root = "none"
    /\ total_burnt = 0

\* State::new(db)
Call_new(is_initialized) ==
    /\ ret.op = "open"
    /\ LET r == State_new_from(db_stat, is_initialized)
       IN  /\ ret' = [op |-> "new", res |-> r.res, val |-> 0, touched |-> {},
                      is_initialized |-> is_initialized]
           /\ world_statistics' = IF r.res = "Ok" THEN r.ws ELSE world_statistics
    /\ UNCHANGED <<db, db_stat, db_epoch, db_log, accounts_to_notify, txpool, cache,
                   world_statistics_checkpoints, checkpoints, ncalls, nroots,
                   pre, last_pre, shadow, since_root, total_burnt>>

NextNew == \E is_initialized \in BOOLEAN : Call_new(is_initialized)

SpecNew == InitNew /\ [][NextNew]_vars

----------------------------------------------------------------------------
(* A transaction's settlement inside the caller's checkpoint, which the     *)
(* caller reverts or keeps                                                  *)

NextSettleRevert ==
    \/ Call_checkpoint
    \/ \E original_sender \in Addresses, storage_limit \in Limits, keys \in KeyOrders,
          cip107 \in BOOLEAN :
            \E changes \in [Range(keys) -> Changes \X Changes] :
                Call_collect_and_settle_collateral(
                    original_sender, storage_limit, keys, changes, FALSE, cip107)
    \/ Call_revert_to_checkpoint

SpecSettleRevert == InitEconomy /\ [][NextSettleRevert]_vars

----------------------------------------------------------------------------

(* Transfers, the arguments kept in ret, over the store that misses address *)
(* NumAddr, inside nested checkpoints                                       *)

\* State::transfer_balance; the caller transfers no more than the balance it
\* has checked, and may name a sender that does not exist
Call_transfer(from, to, by, mode) ==
    /\ by <= balance(cache, from) \/ ~exists(cache, from)
    /\ Call_with("transfer_balance",
                 [from |-> from, to |-> to, by |-> by],
                 transfer_balance(cache, checkpoints, world_statistics, from, to, by, mode),
                 transfer_balance(shadow.cache, <<>>, shadow.ws, from, to, by, mode))

\* checkpoints nested around transfers and deposits
NextNested ==
    \/ Call_checkpoint
    \/ Call_revert_to_checkpoint
    \/ \E from \in Addresses, to \in Addresses, by \in Amounts, mode \in CleanupModes :
            Call_transfer(from, to, by, mode)
    \/ \E a \in Addresses, amount \in Amounts : Call_deposit(a, amount)

SpecNested == Init /\ [][NextNested]_vars

----------------------------------------------------------------------------

(* Threads: read_account_ext and set_sponsor_for_gas (require_exists) run   *)
(* by several threads on one address, one lock step at a time.  ret holds   *)
(* the address, the locals of each thread and the holders of the locks.     *)

\* number of threads that share the State
NumThreads == 3

Threads == 1..NumThreads

ThreadKinds == {"read_account_ext", "set_sponsor_for_gas"}

\* the sponsor balance the setters set
SponsorBalance == 1

\* OverlayAccount::set_sponsor_for_gas; the sponsor balance for gas, which no
\* other call of the model reads, is added to the overlay when it is set
OverlayAccount_set_sponsor_for_gas(ov, sponsor_balance) ==
    [sponsor_balance_for_gas |-> sponsor_balance] @@ ov

\* the holders of the lock of the cache (shared, upgradable, exclusive) and of
\* the lock of the checkpoint stack
LockFree == [readers |-> {}, upgradable |-> {}, writer |-> {},
             checkpoints_writer |-> {}]

\* RwLock::read
can_read(lock) == lock.writer = {}

\* RwLock::upgradable_read
can_upgradable_read(lock) == lock.writer = {} /\ lock.upgradable = {}

\* RwLock::write
can_write(lock) == lock.readers = {} /\ lock.upgradable = {} /\ lock.writer = {}

\* RwLockUpgradableReadGuard::upgrade, by the holder of the upgradable lock
can_upgrade(lock) == lock.readers = {} /\ lock.writer = {}

\* a downgrade that leaves the thread the exclusive lock
keep_exclusive(lock, t) == [lock EXCEPT !.readers = @ \cup {t}]

\* RwLockWriteGuard::downgrade
downgrade(lock, t) == [lock EXCEPT !.writer = {}, !.readers = @ \cup {t}]

\* the slot under a write guard that sets nothing
guard_unused(entry, sponsor_balance) == entry

\* `x.set_sponsor_for_gas(..)` through the write guard require_exists returned
guard_set_sponsor_for_gas(entry, sponsor_balance) ==
    [entry EXCEPT !.account =
        Some(OverlayAccount_set_sponsor_for_gas(@[1], sponsor_balance))]

InitThreads ==
    /\ db = InitDb
    /\ db_stat = InitDbStat
    /\ db_epoch = 0
    /\ db_log = <<>>
    /\ accounts_to_notify = <<>>
    /\ txpool = <<>>
    /\ cache = EmptyCache
    /\ world_statistics = State_new(InitDbStat)
    /\ \E depth \in 0..1 :
            /\ checkpoints = [i \in 1..depth |-> EmptyFrame]
            /\ world_statistics_checkpoints = [i \in 1..depth |-> world_statistics]
    /\ \E a \in Addresses, kinds \in [Threads -> ThreadKinds] :
            ret = [op |-> "threads", res |-> "Ok", val |-> 0, touched |-> {},
                   address |-> a,
                   threads |-> [t \in Threads |->
                                    [kind |-> kinds[t], pc |-> "start",
                                     account |-> None, found |-> "none",
                                     seen |-> None]],
                   lock |-> LockFree]
    /\ ncalls = 0
    /\ nroots = 0
    /\ pre = <<>>
    /\ last_pre = <<>>
    /\ shadow = NoShadow
    /\ since_root = "none"
    /\ total_burnt = 0

\* a step of thread t: its locals and the locks after it
ThreadStep(t, next_thread, next_lock) ==
    /\ ret' = [ret EXCEPT !.threads[t] = next_thread, !.lock = next_lock]
    /\ UNCHANGED <<db, db_stat, db_epoch, db_log, accounts_to_notify, txpool,
                   world_statistics, world_statistics_checkpoints,
                   ncalls, nroots, pre, last_pre, shadow, since_root, total_burnt>>

At(t, kind, pc) ==
    /\ ret.op = "threads"
    /\ ret.threads[t].kind = kind
    /\ ret.threads[t].pc = pc

\* read_account_ext: `self.cache.read()`
Read_lock(t) ==
    /\ At(t, "read_account_ext", "start")
    /\ can_read(ret.lock)
    /\ ThreadStep(t, [ret.threads[t] EXCEPT !.pc = "lookup"],
                  [ret.lock EXCEPT !.readers = @ \cup {t}])
    /\ UNCHANGED <<cache, checkpoints>>

\* read_account_ext: the lookup under the shared lock; a slot with an account
\* is returned under the guard, a slot without one returns None, and with no
\* slot the guard is dropped and the thread goes on to the upgradable lock
Read_lookup(t) ==
    /\ At(t, "read_account_ext", "lookup")
    /\ LET slot == cache[ret.address]
       IN  IF slot = None
           THEN ThreadStep(t, [ret.threads[t] EXCEPT !.pc = "miss"],
                           [ret.lock EXCEPT !.readers = @ \ {t}])
           ELSE IF slot[1].account = None
           THEN ThreadStep(t, [ret.threads[t] EXCEPT !.pc = "done",
                                                     !.found = "not_found"],
                           [ret.lock EXCEPT !.readers = @ \ {t}])
           ELSE ThreadStep(t, [ret.threads[t] EXCEPT !.pc = "guard",
                                                     !.found = "found",
                                                     !.seen = slot[1].account],
                           ret.lock)
    /\ UNCHANGED <<cache, checkpoints>>

\* read_account_ext: `self.cache.upgradable_read()`
Read_upgradable(t) ==
    /\ At(t, "read_account_ext", "miss")
    /\ can_upgradable_read(ret.lock)
    /\ ThreadStep(t, [ret.threads[t] EXCEPT !.pc = "check"],
                  [ret.lock EXCEPT !.upgradable = {t}])
    /\ UNCHANGED <<cache, checkpoints>>

\* read_account_ext: `upgradable_lock.contains_key(address)`, and the load
\* from the store when the address has no slot
Read_check(t) ==
    /\ At(t, "read_account_ext", "check")
    /\ IF cache[ret.address] # None
       THEN ThreadStep(t, [ret.threads[t] EXCEPT !.pc = "upgrade"], ret.lock)
       ELSE ThreadStep(t, [ret.threads[t] EXCEPT
                                !.pc = "upgrade_insert",
                                !.account = get_account(ret.address)],
                       ret.lock)
    /\ UNCHANGED <<cache, checkpoints>>

\* read_account_ext: the upgrade to the exclusive lock, and the insertion of
\* the loaded account
Read_upgrade(t) ==
    /\ ret.op = "threads"
    /\ ret.threads[t].kind = "read_account_ext"
    /\ ret.threads[t].pc \in {"upgrade", "upgrade_insert"}
    /\ can_upgrade(ret.lock)
    /\ cache' = IF ret.threads[t].pc = "upgrade_insert"
                THEN insert_cache_if_fresh_account(cache, ret.address,
                                                   ret.threads[t].account)
                ELSE cache
    /\ ThreadStep(t, [ret.threads[t] EXCEPT !.pc = "write"],
                  [ret.lock EXCEPT !.upgradable = {}, !.writer = {t}])
    /\ UNCHANGED checkpoints

\* read_account_ext: the downgrade to the shared lock and the result, the
\* account under the guard or None
Read_downgrade(t) ==
    /\ At(t, "read_account_ext", "write")
    /\ LET slot == cache[ret.address]
           shared == downgrade(ret.lock, t)
       IN  IF slot[1].account = None
           THEN ThreadStep(t, [ret.threads[t] EXCEPT !.pc = "done",
                                                     !.found = "not_found"],
                           [shared EXCEPT !.readers = @ \ {t}])
           ELSE ThreadStep(t, [ret.threads[t] EXCEPT !.pc = "guard",
                                                     !.found = "found",
                                                     !.seen = slot[1].account],
                           shared)
    /\ UNCHANGED <<cache, checkpoints>>

\* the caller of read_account_ext drops the guard it was returned
Read_drop(t) ==
    /\ At(t, "read_account_ext", "guard")
    /\ ThreadStep(t, [ret.threads[t] EXCEPT !.pc = "done"],
                  [ret.lock EXCEPT !.readers = @ \ {t}])
    /\ UNCHANGED <<cache, checkpoints>>

\* require_or_set: `!self.cache.read().contains_key(address)`, and the load
\* from the store, made with no lock held, when the address has no slot
Set_contains(t) ==
    /\ At(t, "set_sponsor_for_gas", "start")
    /\ can_read(ret.lock)
    /\ IF cache[ret.address] # None
       THEN ThreadStep(t, [ret.threads[t] EXCEPT !.pc = "lock"], ret.lock)
       ELSE ThreadStep(t, [ret.threads[t] EXCEPT !.pc = "load"], ret.lock)
    /\ UNCHANGED <<cache, checkpoints>>

\* require_or_set: `self.db.get_account(address)`
Set_load(t) ==
    /\ At(t, "set_sponsor_for_gas", "load")
    /\ ThreadStep(t, [ret.threads[t] EXCEPT !.pc = "lock_insert",
                                            !.account = get_account(ret.address)],
                  ret.lock)
    /\ UNCHANGED <<cache, checkpoints>>

\* require_or_set: `self.cache.write()`, and the insertion of the loaded
\* account
Set_write(t) ==
    /\ ret.op = "threads"
    /\ ret.threads[t].kind = "set_sponsor_for_gas"
    /\ ret.threads[t].pc \in {"lock", "lock_insert"}
    /\ can_write(ret.lock)
    /\ cache' = IF ret.threads[t].pc = "lock_insert"
                THEN insert_cache_if_fresh_account(cache, ret.address,
                                                   ret.threads[t].account)
                ELSE cache
    /\ ThreadStep(t, [ret.threads[t] EXCEPT !.pc = "checkpoint"],
                  [ret.lock EXCEPT !.writer = {t}])
    /\ UNCHANGED checkpoints

\* require_or_set: `self.checkpoints.write()`
Set_checkpoints_lock(t) ==
    /\ At(t, "set_sponsor_for_gas", "checkpoint")
    /\ ret.lock.checkpoints_writer = {}
    /\ ThreadStep(t, [ret.threads[t] EXCEPT !.pc = "entry"],
                  [ret.lock EXCEPT !.checkpoints_writer = {t}])
    /\ UNCHANGED <<cache, checkpoints>>

\* require_or_set: the slot is recorded in the top frame, the lock of the
\* checkpoint stack is released
Set_checkpoints_entry(t) ==
    /\ At(t, "set_sponsor_for_gas", "entry")
    /\ checkpoints' = require_or_set(cache, checkpoints, ret.address, "error").checkpoints
    /\ ThreadStep(t, [ret.threads[t] EXCEPT !.pc = "dirty"],
                  [ret.lock EXCEPT !.checkpoints_writer = {}])
    /\ UNCHANGED cache

\* require_or_set: the slot is set Dirty; with no account the default of
\* require_exists returns the error and the exclusive guard is dropped, and
\* otherwise the guard is returned
Set_dirty(t) ==
    /\ At(t, "set_sponsor_for_gas", "dirty")
    /\ LET r == require_or_set(cache, <<>>, ret.address, "error")
       IN  /\ cache' = r.cache
           /\ IF r.ok
              THEN ThreadStep(t, [ret.threads[t] EXCEPT !.pc = "guard"], ret.lock)
              ELSE ThreadStep(t, [ret.threads[t] EXCEPT !.pc = "done",
                                                        !.found = "err"],
                              [ret.lock EXCEPT !.writer = {}])
    /\ UNCHANGED checkpoints

\* set_sponsor_for_gas: the closure sets the sponsor through the guard and
\* drops it
Set_mutate(t) ==
    /\ At(t, "set_sponsor_for_gas", "guard")
    /\ cache' = [cache EXCEPT ![ret.address] =
                    Some(guard_set_sponsor_for_gas(@[1], SponsorBalance))]
    /\ ThreadStep(t, [ret.threads[t] EXCEPT !.pc = "done", !.found = "ok",
                                            !.seen = cache'[ret.address][1].account],
                  [ret.lock EXCEPT !.writer = {}])
    /\ UNCHANGED checkpoints

\* the steps of one thread
Thread(t) ==
    \/ Read_lock(t)
    \/ Read_lookup(t)
    \/ Read_upgradable(t)
    \/ Read_check(t)
    \/ Read_upgrade(t)
    \/ Read_downgrade(t)
    \/ Read_drop(t)
    \/ Set_contains(t)
    \/ Set_load(t)
    \/ Set_write(t)
    \/ Set_checkpoints_lock(t)
    \/ Set_checkpoints_entry(t)
    \/ Set_dirty(t)
    \/ Set_mutate(t)

NextThreads == \E t \in Threads : Thread(t)

SpecThreads == InitThreads /\ [][NextThreads]_vars

\* every thread that can take a step takes one in the end: the operating
\* system runs every runnable thread
SpecThreadsFair ==
    InitThreads /\ [][NextThreads]_vars /\ \A t \in Threads : WF_vars(Thread(t))

----------------------------------------------------------------------------

(* Commit with notification: the caller's thread and the spawned threads *)

NextNotify ==
    \/ \E a \in Addresses, by \in Amounts, mode \in CleanupModes :
            Call_add_balance(a, by, mode)
    \/ \E a \in Addresses : Call_remove_contract(a)
    \/ Call_compute_state_root
    \/ Call_commit
    \/ Call_commit_and_notify
    \/ Txpool_notify

SpecNotify == Init /\ [][NextNotify]_vars

----------------------------------------------------------------------------

(* PoS interest: accrual and distribution, the arguments kept in ret *)

\* largest block number passed to inc_distributable_pos_interest
MaxInterestBlock == 3

InterestBlocks == 0..MaxInterestBlock

\* the identifiers the POS register knows
Identifiers == {1, 2}

\* a store whose zero address and four-year lock contract hold tokens, and
\* whose POS register names an address for each identifier
InterestDb(zero_balance, lock_balance) ==
    [a \in AllAddresses |->
        IF a = ZeroAddress THEN Some(Account(zero_balance, 0, 0, 0, 0))
        ELSE IF a = 1 THEN Some(Account(1, 0, 0, 0, 0))
        ELSE IF a = genesis_contract_address_four_year
             THEN Some(Account(lock_balance, 0, 0, 0, 0))
        ELSE IF a = POS_REGISTER_CONTRACT_ADDRESS
             THEN Some(Account(0, 1, <<NumAddr, 1>>, 0, 0))
        ELSE None]

InterestDbStat(issued, pos_staking, pool, last_block) ==
    [InitDbStat EXCEPT
        !.total_issued_tokens = issued,
        !.total_staking_tokens = 0,
        !.total_storage_tokens = 0,
        !.total_pos_staking_tokens = pos_staking,
        !.distributable_pos_interest = pool,
        !.last_distribute_block = last_block]

InitInterest ==
    /\ \E zero_balance \in {0, 1}, lock_balance \in {0, 1} :
            db = InterestDb(zero_balance, lock_balance)
    /\ \E issued \in {4, 5}, pos_staking \in {0, 1, 2}, pool \in {0, 1, 3},
           last_block \in {0, 1} :
            db_stat = InterestDbStat(issued, pos_staking, pool, last_block)
    /\ db_epoch = 0
    /\ db_log = <<>>
    /\ accounts_to_notify = <<>>
    /\ txpool = <<>>
    /\ cache = EmptyCache
    /\ world_statistics = State_new(db_stat)
    /\ world_statistics_checkpoints = <<>>
    /\ checkpoints = <<>>
    /\ ret = [op |-> "new", res |-> "Ok", val |-> 0, touched |-> {}]
    /\ ncalls = 0
    /\ nroots = 0
    /\ pre = <<>>
    /\ last_pre = <<>>
    /\ shadow = NoShadow
    /\ since_root = "none"
    /\ total_burnt = 0

\* a structural call whose arguments are kept in ret with its result
Structural_with(op, args, e) ==
    Structural_recorded([op |-> op, res |-> e.res, val |-> e.val,
                         touched |-> e.touched] @@ args, e)

Call_inc_interest(block) ==
    Structural_with("inc_distributable_pos_interest", [block |-> block],
                    inc_distributable_pos_interest(
                        cache, world_statistics, world_statistics_checkpoints,
                        block))

\* the (identifier, points) pairs of a term: none, one, or one for each
\* identifier in either order
InterestPoints ==
    {<<>>}
    \cup {<< <<i, p>> >> : i \in Identifiers, p \in 1..MAX_TERM_POINTS}
    \cup {pairs \in {<< <<i, p>>, <<j, q>> >> :
                        i \in Identifiers, j \in Identifiers,
                        p \in 1..MAX_TERM_POINTS, q \in 1..MAX_TERM_POINTS} :
            pairs[1][1] # pairs[2][1]}

\* distribute_pos_interest with a given result
distribute_recorded(pos_points, block, e) ==
    Structural_with("distribute_pos_interest",
                    [pos_points |-> pos_points, block |-> block,
                     account_rewards |-> e.account_rewards], e)

Call_distribute_interest(pos_points, block) ==
    distribute_recorded(pos_points, block,
                        distribute_pos_interest(
                            cache, world_statistics, world_statistics_checkpoints,
                            pos_points, block))

NextInterest ==
    \/ \E block \in InterestBlocks : Call_inc_interest(block)
    \/ \E pos_points \in InterestPoints, block \in Blocks :
            Call_distribute_interest(pos_points, block)

SpecInterest == InitInterest /\ [][NextInterest]_vars

----------------------------------------------------------------------------

(* sqrt_u256, one step at a time: ret holds its locals *)

\* every value of the scaled U256
SqrtInputs == 0..(pow2(U256_BITS) - 1)

InitSqrt ==
    /\ db = InitDb
    /\ db_stat = InitDbStat
    /\ db_epoch = 0
    /\ db_log = <<>>
    /\ accounts_to_notify = <<>>
    /\ txpool = <<>>
    /\ cache = EmptyCache
    /\ world_statistics = State_new(InitDbStat)
    /\ world_statistics_checkpoints = <<>>
    /\ checkpoints = <<>>
    /\ \E input \in SqrtInputs :
            ret = [op |-> "sqrt_u256", res |-> "Ok", val |-> 0, touched |-> {},
                   pc |-> "entry", input |-> input, root |-> 0, rounds |-> 0]
    /\ ncalls = 0
    /\ nroots = 0
    /\ pre = <<>>
    /\ last_pre = <<>>
    /\ shadow = NoShadow
    /\ since_root = "none"
    /\ total_burnt = 0

\* a step of sqrt_u256 changes its locals only
SqrtStep(next_ret) ==
    /\ ret' = next_ret
    /\ UNCHANGED <<db, db_stat, db_epoch, db_log, accounts_to_notify, txpool, cache,
                   world_statistics, world_statistics_checkpoints, checkpoints,
                   ncalls, nroots, pre, last_pre, shadow, since_root, total_burnt>>

\* `if bits <= 64 { return input.as_u64().sqrt().into(); }`
Sqrt_small ==
    /\ ret.pc = "entry"
    /\ bits(ret.input) <= U64_BITS
    /\ SqrtStep([ret EXCEPT !.pc = "return", !.val = isqrt(ret.input)])

\* step 1: the approximate root
Sqrt_estimate ==
    /\ ret.pc = "entry"
    /\ bits(ret.input) > U64_BITS
    /\ SqrtStep([ret EXCEPT !.pc = "loop", !.root = init_root(ret.input)])

\* `root * root` does not fit a U256: the multiplication panics
Sqrt_overflow ==
    /\ ret.pc = "loop"
    /\ ret.root * ret.root >= pow2(U256_BITS)
    /\ SqrtStep([ret EXCEPT !.pc = "abort", !.res = "Panic"])

\* one round of `while root * root > input`
Sqrt_refine ==
    /\ ret.pc = "loop"
    /\ ret.root * ret.root < pow2(U256_BITS)
    /\ ret.root * ret.root > ret.input
    /\ SqrtStep([ret EXCEPT !.root = newton_step(ret.input, ret.root),
                            !.rounds = @ + 1])

\* the loop ends and the root is returned
Sqrt_return ==
    /\ ret.pc = "loop"
    /\ ret.root * ret.root < pow2(U256_BITS)
    /\ ~(ret.root * ret.root > ret.input)
    /\ SqrtStep([ret EXCEPT !.pc = "return", !.val = ret.root])

NextSqrt ==
    \/ Sqrt_small
    \/ Sqrt_estimate
    \/ Sqrt_overflow
    \/ Sqrt_refine
    \/ Sqrt_return

SpecSqrt == InitSqrt /\ [][NextSqrt]_vars

----------------------------------------------------------------------------

(* Properties *)

Top(stack) == stack[Len(stack)]

CheckpointPops == {"discard_checkpoint", "revert_to_checkpoint"}

StructuralOps == {"compute_state_root", "commit",
                  "bump_block_number_accumulate_interest",
                  "inc_distributable_pos_interest", "distribute_pos_interest"}

\* the calls that reach the cache only through require_exists and
\* require_or_new_basic_account
RequireOps == {"add_balance", "sub_balance", "set_nonce", "set_storage",
               "deposit", "withdraw", "settle_collateral_for_address"}

\* the slot of address a as a mutable access finds it, loaded when not cached
SlotBefore(a) == IF cache[a] # None THEN cache[a][1] ELSE new_clean(get_account(a))

\* C1: checkpoint(), then any mutations, then revert_to_checkpoint() leaves
\* every address reading exactly what it read when the checkpoint was taken
\* (absent included) and every field of world_statistics at its value then.
RevertRestores ==
    (ret.op = "revert_to_checkpoint" /\ last_pre # <<>> /\ ~last_pre[1].merged)
        => /\ View(cache) = last_pre[1].view
           /\ world_statistics = last_pre[1].ws

\* a revert that undid the creation of an absent account and a change of the
\* world statistics
RevertRestoresWitness ==
    /\ ret.op = "revert_to_checkpoint"
    /\ last_pre # <<>>
    /\ ~last_pre[1].merged
    /\ \E a \in last_pre[1].touched :
            last_pre[1].view[a] = None /\ last_pre[2].view[a] # None
    /\ last_pre[2].ws # last_pre[1].ws

\* C2: after checkpoint (H1), mutations, checkpoint (H2), mutations,
\* discard_checkpoint (H2 merged into H1) and revert_to_checkpoint, every
\* address reads what it read before H1 was opened, whether it was touched
\* before H2 as well or first inside H2.
NestedRevertRestores ==
    (ret.op = "revert_to_checkpoint" /\ last_pre # <<>> /\ last_pre[1].merged)
        => /\ View(cache) = last_pre[1].view
           /\ world_statistics = last_pre[1].ws

\* a revert of a scope an inner scope was merged into, with one address touched
\* in both scopes and changed, and one first touched in the inner scope
NestedRevertRestoresWitness ==
    /\ ret.op = "revert_to_checkpoint"
    /\ last_pre # <<>>
    /\ last_pre[1].merged
    /\ \E a \in last_pre[1].both : last_pre[2].view[a] # last_pre[1].view[a]
    /\ last_pre[1].first_inner # {}

\* C3: checkpoint(); mutations; discard_checkpoint(), any number of times in
\* sequence, leaves the cache, the world statistics and the two (empty) stacks
\* as the same mutations leave them when applied with no checkpoint at all.
DiscardEquivalence ==
    (shadow.valid /\ ret.op = "discard_checkpoint" /\ Len(pre) = 0)
        => /\ cache = shadow.cache
           /\ world_statistics = shadow.ws
           /\ checkpoints = <<>>
           /\ world_statistics_checkpoints = <<>>

\* two checkpoint / mutate / discard rounds done, each with a mutation
DiscardEquivalenceWitness ==
    /\ shadow.valid
    /\ shadow.cycles = 2
    /\ ret.op = "discard_checkpoint"
    /\ Len(pre) = 0
    /\ cache # EmptyCache
    /\ world_statistics # State_new(InitDbStat)

\* C4: discard_checkpoint moves the entries of the top frame into the frame
\* below, keeping the entry of the frame below for an address both frames
\* hold; it pops the paired snapshot of the world statistics and leaves the
\* world statistics, the cache and the frames further down as they are.
DiscardMergesFirstWriteWins ==
    [][(ret'.op = "discard_checkpoint" /\ Len(checkpoints) > 0) =>
        LET n == Len(checkpoints)
        IN  /\ cache' = cache
            /\ world_statistics' = world_statistics
            /\ world_statistics_checkpoints' =
                    SubSeq(world_statistics_checkpoints, 1, n - 1)
            /\ Len(checkpoints') = n - 1
            /\ \A i \in 1..(n - 2) : checkpoints'[i] = checkpoints[i]
            /\ n > 1 => \A k \in AllAddresses :
                    checkpoints'[n - 1][k] =
                        IF checkpoints[n - 1][k] # None
                        THEN checkpoints[n - 1][k]
                        ELSE checkpoints[n][k]
      ]_vars

\* a discard has merged a frame into its parent, with an address in both, an
\* address in the merged frame only, and world statistics that differ from
\* the parent's snapshot
DiscardMergesWitness ==
    /\ ret.op = "discard_checkpoint"
    /\ Len(pre) > 0
    /\ Top(pre).both # {}
    /\ Top(pre).first_inner # {}
    /\ Top(world_statistics_checkpoints) # world_statistics

\* C5: compute_state_root, commit, bump_block_number_accumulate_interest,
\* inc_distributable_pos_interest and distribute_pos_interest, called with a
\* checkpoint open, fail their assertion and write nothing to the store.
StructuralAborts ==
    [][(ret'.op \in StructuralOps /\ Len(checkpoints) > 0) =>
        /\ ret'.res = "Panic"
        /\ UNCHANGED <<db, db_stat, db_epoch>>
      ]_vars

\* a structural call has aborted with a checkpoint open and changes pending
StructuralAbortsWitness ==
    /\ ret.op \in StructuralOps
    /\ ret.res = "Panic"
    /\ Len(checkpoints) > 0
    /\ Top(checkpoints) # EmptyFrame

\* C6 as stated: discard_checkpoint or revert_to_checkpoint called with the
\* checkpoint stack empty aborts.
EmptyStackAborts ==
    [][(ret'.op \in CheckpointPops /\ Len(checkpoints) = 0) =>
        ret'.res = "Panic"
      ]_vars

\* C6, amended: discard_checkpoint or revert_to_checkpoint called with the
\* checkpoint stack empty returns normally and changes nothing of the state.
EmptyStackNoOp ==
    [][(ret'.op \in CheckpointPops /\ Len(checkpoints) = 0) =>
        /\ ret'.res = "Ok"
        /\ UNCHANGED <<db, db_stat, db_epoch, db_log, accounts_to_notify, txpool, cache,
                       world_statistics, world_statistics_checkpoints,
                       checkpoints>>
      ]_vars

\* a revert has returned from a call made with no checkpoint open and with
\* accounts in the cache
EmptyStackNoOpWitness ==
    /\ ret.op = "revert_to_checkpoint"
    /\ ret.res = "Ok"
    /\ last_pre = <<>>
    /\ Len(checkpoints) = 0
    /\ cache # EmptyCache

\* C7 as stated: checkpoint() pushes an empty frame and a snapshot of the
\* world statistics, and returns the length of the stack after the push.
CheckpointReturnsNewDepth ==
    ret.op = "checkpoint" =>
        /\ Len(checkpoints) > 0
        /\ Len(world_statistics_checkpoints) > 0
        /\ Top(checkpoints) = EmptyFrame
        /\ Top(world_statistics_checkpoints) = world_statistics
        /\ ret.val = Len(checkpoints)

\* C7, amended: checkpoint() pushes an empty frame and a snapshot of the
\* world statistics, and returns the index of the new frame, the length of
\* the stack before the push.
CheckpointReturnsIndex ==
    ret.op = "checkpoint" =>
        /\ Len(checkpoints) > 0
        /\ Len(world_statistics_checkpoints) > 0
        /\ Top(checkpoints) = EmptyFrame
        /\ Top(world_statistics_checkpoints) = world_statistics
        /\ ret.val = Len(checkpoints) - 1

\* a nested checkpoint has been taken over a frame with entries, the world
\* statistics changed since the outer one
CheckpointReturnsIndexWitness ==
    /\ ret.op = "checkpoint"
    /\ ret.val = 1
    /\ checkpoints[1] # EmptyFrame
    /\ world_statistics_checkpoints[1] # world_statistics

\* C8: the two stacks have the same length, the number of checkpoint() calls
\* less the number of discard and revert calls made with a frame to pop.
StacksPaired ==
    /\ Len(checkpoints) = Len(world_statistics_checkpoints)
    /\ Len(checkpoints) = Len(pre)

\* a revert has popped the inner of two frames, after a discard merged an
\* earlier inner frame
StacksPairedWitness ==
    /\ ret.op = "revert_to_checkpoint"
    /\ last_pre # <<>>
    /\ Len(checkpoints) = 1
    /\ pre[1].merged
    /\ last_pre[1].touched # {}

\* C9: a call that takes addresses through require_exists or
\* require_or_new_basic_account records, in the top frame, the slot of each
\* as it was before the call marked it Dirty, for the addresses the frame had
\* no entry for; it leaves every other entry of the top frame and every lower
\* frame as they were.  With no checkpoint open it records nothing.
RequireRecordsFirstTouch ==
    [][(ret'.op \in RequireOps /\ ret'.res # "Panic") =>
        IF Len(checkpoints) = 0
        THEN checkpoints' = <<>>
        ELSE LET n == Len(checkpoints)
             IN  /\ Len(checkpoints') = n
                 /\ \A i \in 1..(n - 1) : checkpoints'[i] = checkpoints[i]
                 /\ \A a \in AllAddresses :
                        checkpoints'[n][a] =
                            IF a \in ret'.touched /\ checkpoints[n][a] = None
                            THEN Some(Some(SlotBefore(a)))
                            ELSE checkpoints[n][a]
                 /\ \A a \in ret'.touched :
                        cache'[a] # None /\ is_dirty(cache'[a][1])
      ]_vars

\* set_nonce has touched an address whose entry in the top frame is the Clean
\* slot an earlier call of the same scope found, its balance changed since
RequireRecordsFirstTouchWitness ==
    \E a \in Addresses :
        /\ ret.op = "set_nonce"
        /\ ret.touched = {a}
        /\ Len(checkpoints) > 0
        /\ Top(checkpoints)[a] # None
        /\ Top(checkpoints)[a][1] # None
        /\ Top(checkpoints)[a][1][1].state = "Clean"
        /\ Top(checkpoints)[a][1][1].account # None
        /\ Top(checkpoints)[a][1][1].account[1].balance
                # cache[a][1].account[1].balance

\* C10: compute_state_root leaves the cache empty, and a call of it with no
\* mutation since the last one commits and deletes no account, adds no
\* notification record, writes the same counters and returns the same root
\* without error.
ComputeStateRootIdempotent ==
    [][(ret'.op = "compute_state_root" /\ Len(checkpoints) = 0) =>
        /\ ret'.res = "Ok"
        /\ cache' = EmptyCache
        /\ since_root = "clean" =>
                /\ accounts_to_notify' = accounts_to_notify
                /\ db' = db
                /\ db_stat' = db_stat
                /\ StateRoot' = StateRoot
      ]_vars

RootOps == {"compute_state_root", "commit"}

\* C11: compute_state_root acts only on Dirty entries: an entry that is Clean
\* when it is drained causes no store write and no notification record.
CleanEntriesIgnored ==
    [][(ret'.op \in RootOps /\ ret'.res = "Ok") =>
        \A a \in AllAddresses :
            (cache[a] # None /\ ~is_dirty(cache[a][1])) =>
                /\ \A i \in 1..Len(db_log') :
                        db_log'[i].write \in {"commit", "delete"}
                            => db_log'[i].address # a
                /\ \A i \in (Len(accounts_to_notify) + 1)..Len(accounts_to_notify') :
                        accounts_to_notify'[i].address # a
      ]_vars

\* C12: whatever order the cache is drained in, compute_state_root makes the
\* same store writes and notifications and leaves the same root: the
\* per-account commits are in ascending address order, and the deletions and
\* the flush of the world statistics come after every per-account commit.
RootDeterminism ==
    [][(ret'.op \in RootOps /\ ret'.res = "Ok") =>
        /\ \A order \in drain(cache) :
                LET w == root_writes(order, cache, db, accounts_to_notify)
                IN  /\ w.db = db'
                    /\ w.db_log = db_log'
                    /\ w.accounts_to_notify = accounts_to_notify'
        /\ accounts_to_notify' = accounts_to_notify \o notify_records(cache, 0)
        /\ db' = commit_accounts(cache, db)
        /\ \A i, j \in 1..Len(db_log') :
                /\ (i < j /\ db_log'[i].write = "commit" /\ db_log'[j].write = "commit")
                        => db_log'[i].address < db_log'[j].address
                /\ (db_log'[i].write = "commit" /\ db_log'[j].write # "commit")
                        => i < j
                /\ (db_log'[i].write = "commit_world_statistics") <=> (i = Len(db_log'))
      ]_vars

\* a root was computed over a cache drained in one of several orders, and a
\* commit of a higher address was followed by the deletion of a lower one
RootDeterminismWitness ==
    /\ since_root = "clean"
    /\ \E i, j \in 1..Len(db_log) :
            /\ i < j
            /\ db_log[i].write = "commit"
            /\ db_log[j].write = "delete"
            /\ db_log[j].address < db_log[i].address

\* what the payer of an address's collateral can pay with: the sponsor balance
\* for collateral and the unused storage points of a contract with code, the
\* balance of any other account
Funds(a, acc) ==
    IF acc = None THEN 0
    ELSE IF a \in ContractAddresses /\ acc[1].code
    THEN acc[1].sponsor_balance_for_collateral
            + (IF acc[1].storage_points = None THEN 0
               ELSE acc[1].storage_points[1].unused)
    ELSE acc[1].balance

\* the collateral an account holds, in tokens and in storage points
Held(acc) ==
    IF acc = None THEN 0
    ELSE acc[1].collateral_for_storage + points_in_use(acc[1])

SettleSteps ==
    /\ ret'.op = "settle_collateral"
    /\ ret'.res # "Panic"

\* the state a settlement has reached when it comes to the charge: after the
\* CIP-107 conversion and the refund, which a dry run makes as well
BeforeCharge ==
    settle_collateral_for_address(cache, checkpoints, world_statistics, ret'.addr,
                                  ret'.inc, ret'.sub, TRUE, ret'.cip107)

\* no conversion and no refund precedes the charge
ChargeOnly ==
    /\ ret'.sub = 0
    /\ \/ ~ret'.cip107
       \/ ret'.addr \notin ContractAddresses
       \/ View(cache)[ret'.addr] = None
       \/ View(cache)[ret'.addr][1].storage_points # None

\* C13: outside a dry run, an increase up to what the payer has available
\* when the charge is made is charged and the result is Valid, the increase
\* equal to it included; an increase above it, the one a unit above included,
\* returns NotEnoughBalance with required the increase and got the available
\* amount, and charges nothing.
CollateralBoundary ==
    [][(SettleSteps /\ ~ret'.dry_run_no_charge /\ ret'.inc > 0) =>
        LET a == ret'.addr
            inc == DRIPS_PER_STORAGE_COLLATERAL_UNIT * ret'.inc
            got == Funds(a, View(BeforeCharge.cache)[a])
            held == Held(View(BeforeCharge.cache)[a])
        IN  /\ ChargeOnly => /\ got = Funds(a, View(cache)[a])
                             /\ held = Held(View(cache)[a])
            /\ inc <= got =>
                /\ ret'.res = "Valid"
                /\ Held(View(cache')[a]) = held + inc
                /\ Funds(a, View(cache')[a]) = got - inc
            /\ inc > got =>
                /\ ret'.res = "NotEnoughBalance"
                /\ ret'.val = got
                /\ View(cache') = View(BeforeCharge.cache)
                /\ world_statistics' = BeforeCharge.ws
      ]_vars

\* a contract with code was asked for one unit more than its sponsor balance
\* and unused storage points together, and was refused
CollateralBoundaryWitness ==
    /\ ret.op = "settle_collateral"
    /\ ret.res = "NotEnoughBalance"
    /\ ~ret.dry_run_no_charge
    /\ ret.addr \in ContractAddresses
    /\ DRIPS_PER_STORAGE_COLLATERAL_UNIT * ret.inc = ret.val + 1
    /\ View(cache)[ret.addr][1].storage_points # None
    /\ View(cache)[ret.addr][1].storage_points[1].unused > 0

BatchSteps ==
    /\ ret'.op = "collect_and_settle_collateral"
    /\ ret'.res # "Panic"

\* the settlement of the first j addresses of the batch, in its order
Prefix(j) ==
    settle_collateral_for_all(cache, checkpoints, world_statistics,
                              SubSeq(ret'.keys, 1, j), ret'.changes,
                              ret'.dry_run_no_charge, ret'.cip107)

\* the settlement of the j-th address of the batch after the ones before it
Settlement(j) ==
    settle_collateral_for_address(
        Prefix(j - 1).cache, checkpoints, Prefix(j - 1).ws, ret'.keys[j],
        ret'.changes[ret'.keys[j]][1], ret'.changes[ret'.keys[j]][2],
        ret'.dry_run_no_charge, ret'.cip107)

\* C14: the batch stops at the first address whose settlement is not Valid:
\* the call returns that NotEnoughBalance result, the state is the one reached
\* when that address was refused, no address later in the order is settled,
\* and the storage limit is not checked.
BatchStopsAtFirstFailure ==
    [][BatchSteps =>
        \A j \in 1..Len(ret'.keys) :
            (Prefix(j - 1).res = "Valid" /\ Settlement(j).res = "NotEnoughBalance") =>
                /\ ret'.res = "NotEnoughBalance"
                /\ ret'.val = Settlement(j).val
                /\ ret'.settled = j - 1
                /\ View(cache') = View(Settlement(j).cache)
                /\ world_statistics' = Settlement(j).ws
                /\ \A i \in (j + 1)..Len(ret'.keys) :
                        View(cache')[ret'.keys[i]] = View(cache)[ret'.keys[i]]
      ]_vars

\* the first of two addresses was refused, the second had a change to settle,
\* and the sender's collateral is above the storage limit
BatchStopsWitness ==
    /\ ret.op = "collect_and_settle_collateral"
    /\ ret.res = "NotEnoughBalance"
    /\ Len(ret.keys) = 2
    /\ ret.settled = 0
    /\ ret.changes[ret.keys[2]] # <<0, 0>>
    /\ ~ret.dry_run_no_charge
    /\ Held(View(cache)[ret.original_sender]) > ret.storage_limit

\* C15: when every settlement of the batch is Valid, the call returns
\* ExceedStorageLimit, with the limit given and required the sender's total
\* collateral, exactly when that collateral is above the storage limit and the
\* call is not a dry run; a collateral equal to the limit returns Valid.
StorageLimitBoundary ==
    [][(BatchSteps /\ Prefix(Len(ret'.keys)).res = "Valid") =>
        LET c == Held(View(cache')[ret'.original_sender])
        IN  /\ ret'.res \in {"Valid", "ExceedStorageLimit"}
            /\ ret'.res = "ExceedStorageLimit"
                    <=> (c > ret'.storage_limit /\ ~ret'.dry_run_no_charge)
            /\ ret'.res = "ExceedStorageLimit" => ret'.val = c
            /\ c = ret'.storage_limit => ret'.res = "Valid"
      ]_vars

\* a batch that charged the sender left its collateral one above the limit
StorageLimitBoundaryWitness ==
    /\ ret.op = "collect_and_settle_collateral"
    /\ ret.res = "ExceedStorageLimit"
    /\ ret.val = ret.storage_limit + 1
    /\ ret.original_sender \in Range(ret.keys)
    /\ ret.changes[ret.original_sender][1] > 0

\* C16: a dry run makes no charge and returns neither NotEnoughBalance nor
\* ExceedStorageLimit but Valid; the refunds are made all the same: what an
\* address is refunded leaves its collateral and reaches its payer, and the
\* world statistics drop by every decrease.
DryRunNeverFails ==
    [][(BatchSteps /\ ret'.dry_run_no_charge) =>
        /\ ret'.res = "Valid"
        /\ ret'.settled = Len(ret'.keys)
        /\ \A a \in Addresses :
                LET refund == Held(View(cache)[a]) - Held(View(cache')[a])
                    sub == IF a \in Range(ret'.keys)
                           THEN DRIPS_PER_STORAGE_COLLATERAL_UNIT * ret'.changes[a][2]
                           ELSE 0
                IN  /\ 0 <= refund /\ refund <= sub
                    /\ Funds(a, View(cache')[a]) = Funds(a, View(cache)[a]) + refund
                    /\ refund = 0 =>
                            (sub = 0 \/ View(cache')[a] = None
                                \/ View(cache')[a][1].collateral_for_storage = 0)
        /\ world_statistics'.total_storage_tokens + world_statistics'.used_storage_points
                = world_statistics.total_storage_tokens
                    + world_statistics.used_storage_points
                    - DRIPS_PER_STORAGE_COLLATERAL_UNIT
                        * sum_from([a \in AllAddresses |->
                                      IF a \in Range(ret'.keys)
                                      THEN ret'.changes[a][2] ELSE 0], 0)
      ]_vars

\* a dry run returned Valid for a batch with an increase above what its payer
\* has and a refund, and with the sender's collateral above the limit
DryRunWitness ==
    /\ ret.op = "collect_and_settle_collateral"
    /\ ret.dry_run_no_charge
    /\ ret.res = "Valid"
    /\ Len(ret.keys) = 2
    /\ DRIPS_PER_STORAGE_COLLATERAL_UNIT * ret.changes[ret.keys[1]][1]
            > Funds(ret.keys[1], View(cache)[ret.keys[1]])
    /\ ret.changes[ret.keys[2]][2] > 0
    /\ Held(View(cache)[ret.keys[2]]) < Held(db[ret.keys[2]])
    /\ Held(View(cache)[ret.original_sender]) > ret.storage_limit

\* the token collateral an account holds
Tokens(acc) == IF acc = None THEN 0 ELSE acc[1].collateral_for_storage

\* the state a settlement has reached when it comes to the refund: after the
\* CIP-107 conversion, if one is made
BeforeRefund ==
    IF /\ ret'.cip107
       /\ ret'.addr \in ContractAddresses
       /\ (ret'.sub # 0 \/ ret'.inc # 0)
    THEN initialize_cip107(read_account_ext(cache, ret'.addr), checkpoints,
                           world_statistics, ret'.addr)
    ELSE Eff(cache, checkpoints, world_statistics, "Ok", 0, {})

\* C17: a decrease is refunded up to the token collateral the account holds
\* and no further; the excess is burnt: it leaves total_issued_tokens and
\* reaches no account, and no account's collateral goes below zero.
RefundCappedExcessBurnt ==
    [][(SettleSteps /\ ret'.sub > 0) =>
        LET a == ret'.addr
            by == DRIPS_PER_STORAGE_COLLATERAL_UNIT * ret'.sub
            held == Tokens(View(BeforeRefund.cache)[a])
            refundable == IF by > held THEN held ELSE by
            excess == by - refundable
        IN  /\ world_statistics'.total_issued_tokens
                    = BeforeRefund.ws.total_issued_tokens - excess
            /\ total_burnt' = total_burnt + excess
            /\ sum_over(View(cache'), "holdings")
                    = sum_over(View(BeforeRefund.cache), "holdings")
            /\ \A b \in AllAddresses \ {a} : View(cache')[b] = View(cache)[b]
            /\ ret'.inc = 0 =>
                    /\ Held(View(cache')[a])
                            = Held(View(BeforeRefund.cache)[a]) - refundable
                    /\ Funds(a, View(cache')[a])
                            = Funds(a, View(BeforeRefund.cache)[a]) + refundable
            /\ \A b \in AllAddresses :
                    /\ Tokens(View(cache')[b]) >= 0
                    /\ Held(View(cache')[b]) >= Tokens(View(cache')[b])
      ]_vars

\* an account holding one token of collateral was asked to give back two: one
\* was refunded, one burnt
RefundCappedWitness ==
    /\ ret.op = "settle_collateral"
    /\ ret.res = "Valid"
    /\ ret.sub = 2
    /\ ret.inc = 0
    /\ total_burnt = 1
    /\ Tokens(View(cache)[ret.addr]) = 0
    /\ Tokens(db[ret.addr]) = 1

Unaccounted ==
    world_statistics.total_issued_tokens + total_burnt
        - sum_over(View(cache), "holdings")

\* C19: after compute_state_root, total_issued_tokens is the sum of the
\* accounts' balances, collateral, staking and sponsor holdings, apart from the
\* burns.
Conservation ==
    since_root = "clean" =>
        db_stat.total_issued_tokens + total_burnt = sum_over(db, "holdings")

ConservingOps ==
    {"transfer_balance", "deposit", "withdraw", "settle_collateral",
     "inc_distributable_pos_interest", "distribute_pos_interest"}

\* C19 as amended: transfer_balance, deposit, withdraw, the payment of PoS
\* interest and the settlement of collateral each leave total_issued_tokens,
\* with the burns added back, equal to the sum of the accounts' holdings when
\* it was so before, and compute_state_root stores the two as they are;
\* add_balance and sub_balance change an account's balance and leave
\* total_issued_tokens as it is.
ConservationOfPairedOperations ==
    /\ (ncalls = 0 /\ nroots = 0) => Unaccounted = 0
    /\ [][/\ (ret'.op \in ConservingOps /\ ret'.res # "Panic")
                => Unaccounted' = Unaccounted
          /\ (ret'.op \in {"add_balance", "sub_balance"})
                => /\ world_statistics'.total_issued_tokens
                        = world_statistics.total_issued_tokens
                   /\ total_burnt' = total_burnt
          /\ (ret'.op \in RootOps /\ ret'.res = "Ok")
                => /\ db_stat'.total_issued_tokens + total_burnt'
                            - sum_over(db', "holdings") = Unaccounted
                   /\ Unaccounted' = Unaccounted
         ]_vars

\* a root was computed after a settlement that burnt collateral, and the
\* stored total is the sum of the stored holdings less the burn
ConservationWitness ==
    /\ since_root = "clean"
    /\ total_burnt > 0
    /\ db_stat.total_issued_tokens + total_burnt = sum_over(db, "holdings")
    /\ db_stat.total_issued_tokens < sum_over(db, "holdings")

RequireOrNewAndRequireExists ==
    [][\A a \in Addresses :
        (ret'.op \in {"set_nonce", "sub_balance"} /\ ret'.touched = {a}) =>
            /\ cache'[a] # None
            /\ is_dirty(cache'[a][1])
            /\ IF View(cache)[a] # None
               THEN /\ ret'.res = "Ok"
                    /\ View(cache')[a] # None
                    /\ [View(cache')[a][1] EXCEPT
                            !.nonce = View(cache)[a][1].nonce,
                            !.balance = View(cache)[a][1].balance]
                        = View(cache)[a][1]
               ELSE IF ret'.op = "set_nonce"
               THEN /\ ret'.res = "Ok"
                    /\ View(cache')[a] # None
                    /\ View(cache')[a][1].balance = 0
                    /\ [View(cache')[a][1] EXCEPT !.nonce = 0] = new_basic(0)
               ELSE /\ ret'.res = "Err"
                    /\ View(cache')[a] = None
                    /\ ~exists(cache', a)
      ]_vars

\* sub_balance has asked require_exists for an address that is in neither the
\* cache nor the store: the call failed and left a slot with no account
RequireExistsFailsWitness ==
    \E a \in Addresses :
        /\ ret.op = "sub_balance"
        /\ ret.res = "Err"
        /\ ret.touched = {a}
        /\ db[a] = None
        /\ cache[a] # None
        /\ cache[a][1].account = None
        /\ ~exists(cache, a)

\* what a query returns for an account that is not found
DefaultValue(q) == IF q \in {"exists", "is_contract_with_code"} THEN FALSE ELSE 0

NewValidatesEveryCounter ==
    (/\ ret.op = "new"
     /\ ~ret.is_initialized
     /\ \E counter \in DOMAIN db_stat : db_stat[counter] # 0)
        => ret.res = "Panic"

\* the rounds the loop of sqrt_u256 may take
MAX_NEWTON_ROUNDS == 4

\* C27: for every input the Newton loop of sqrt_u256 ends after at most 4
\* rounds: no run of the function ever starts a fifth round, so the loop
\* cannot go on for ever, and a run that is still in the loop after 4 rounds
\* has a root whose square is not above the input.
NewtonTerminates ==
    ret.op = "sqrt_u256" =>
        /\ ret.rounds <= MAX_NEWTON_ROUNDS
        /\ (ret.pc = "loop" /\ ret.rounds = MAX_NEWTON_ROUNDS) =>
                ret.root * ret.root <= ret.input

\* the loop has ended after three rounds and returns the root
NewtonTerminatesWitness ==
    /\ ret.op = "sqrt_u256"
    /\ ret.pc = "return"
    /\ ret.rounds = 3
    /\ ret.val * ret.val <= ret.input
    /\ ret.input < (ret.val + 1) * (ret.val + 1)

\* the tokens in circulation: the total issued less the balances of the zero
\* address and of the two genesis lock contracts
circulating_tokens(balances, ws) ==
    ws.total_issued_tokens
        - balances[ZeroAddress]
        - balances[genesis_contract_address_four_year]
        - balances[genesis_contract_address_two_year]

\* the largest r with r * r <= n
floor_sqrt(n) == CHOOSE r \in 0..n : r * r <= n /\ n < (r + 1) * (r + 1)

\* the interest of one block, the rate squared under the root
interest_rate_in_root(balances, ws) ==
    floor_sqrt(circulating_tokens(balances, ws) * ws.total_pos_staking_tokens
               * ws.interest_rate_per_block * ws.interest_rate_per_block)
        \div (BLOCKS_PER_YEAR * INVERSE_INTEREST_RATE
                * INITIAL_INTEREST_RATE_PER_BLOCK)

\* floor(sqrt(circulating x staked) x rate^2) over the same divisor
interest_rate_outside_root(balances, ws) ==
    floor_sqrt(circulating_tokens(balances, ws) * ws.total_pos_staking_tokens
               * ws.interest_rate_per_block * ws.interest_rate_per_block
               * ws.interest_rate_per_block * ws.interest_rate_per_block)
        \div (BLOCKS_PER_YEAR * INVERSE_INTEREST_RATE
                * INITIAL_INTEREST_RATE_PER_BLOCK)

\* the balance of every address as the state has it, cached or in the store
Balances(c) ==
    [a \in AllAddresses |->
        IF c[a] # None
        THEN IF View(c)[a] = None THEN 0 ELSE View(c)[a][1].balance
        ELSE IF db[a] = None THEN 0 ELSE db[a][1].balance]

\* inc_distributable_pos_interest has returned Ok
IncReturned == ret'.op = "inc_distributable_pos_interest" /\ ret'.res = "Ok"

\* the call is one that accrues: within the hour of the last distribution,
\* with PoS stake registered
Accrues ==
    /\ IncReturned
    /\ ret'.block <= world_statistics.last_distribute_block + BLOCKS_PER_HOUR
    /\ world_statistics.total_pos_staking_tokens # 0

\* C24: inc_distributable_pos_interest(block) changes nothing when block is
\* above last_distribute_block + BLOCKS_PER_HOUR or no PoS stake is
\* registered; otherwise, the block equal to last_distribute_block +
\* BLOCKS_PER_HOUR included, it adds the interest to distributable_pos_interest
\* and changes no other counter, no account and nothing in the store.
IncChangesPoolOnly ==
    [][IncReturned =>
        /\ UNCHANGED <<db, db_stat, checkpoints, world_statistics_checkpoints>>
        /\ Balances(cache') = Balances(cache)
        /\ \A a \in AllAddresses :
                IF cache[a] # None THEN cache'[a] = cache[a]
                ELSE cache'[a] # None => cache'[a][1].state = "Clean"
        /\ ~Accrues => UNCHANGED <<cache, world_statistics>>
        /\ Accrues =>
                /\ [world_statistics' EXCEPT !.distributable_pos_interest = 0]
                    = [world_statistics EXCEPT !.distributable_pos_interest = 0]
                /\ world_statistics'.total_issued_tokens
                    = world_statistics.total_issued_tokens
                /\ world_statistics'.distributable_pos_interest
                    = world_statistics.distributable_pos_interest
                        + interest_rate_in_root(Balances(cache), world_statistics)]_vars

\* an accrual at the block equal to last_distribute_block + BLOCKS_PER_HOUR
\* has raised the pool
IncChangesPoolOnlyWitness ==
    /\ ret.op = "inc_distributable_pos_interest"
    /\ ret.res = "Ok"
    /\ ncalls = 1
    /\ ret.block = world_statistics.last_distribute_block + BLOCKS_PER_HOUR
    /\ ret.block > 1
    /\ world_statistics.distributable_pos_interest
        > db_stat.distributable_pos_interest
    /\ world_statistics.total_issued_tokens = db_stat.total_issued_tokens

\* C25 as stated: the interest accrued is
\* floor(sqrt(circulating x staked) x rate^2) / (blocks_per_year x
\* inverse_rate x initial_rate).
InterestRateOutsideRoot ==
    [][Accrues =>
        world_statistics'.distributable_pos_interest
            - world_statistics.distributable_pos_interest
            = interest_rate_outside_root(Balances(cache), world_statistics)]_vars

\* C25: the interest accrued is floor(sqrt(circulating x staked x rate^2))
\* / (blocks_per_year x inverse_rate x initial_rate), the rate squared under
\* the root, where circulating is the total issued less the balances of the
\* zero address and the two genesis lock contracts.
InterestRateInsideRoot ==
    [][Accrues =>
        LET circulating == circulating_tokens(Balances(cache), world_statistics)
            staked == world_statistics.total_pos_staking_tokens
            rate == world_statistics.interest_rate_per_block
            accrued == world_statistics'.distributable_pos_interest
                        - world_statistics.distributable_pos_interest
        IN  accrued = floor_sqrt(circulating * staked * rate * rate)
                        \div (BLOCKS_PER_YEAR * INVERSE_INTEREST_RATE
                                * INITIAL_INTEREST_RATE_PER_BLOCK)]_vars

\* an accrual whose amount tells the two formulas apart: a rate of 2, a
\* locked balance and an interest of 1 where the rate outside the root gives 2
InterestRateInsideRootWitness ==
    /\ ret.op = "inc_distributable_pos_interest"
    /\ ret.res = "Ok"
    /\ ncalls = 1
    /\ ret.block <= world_statistics.last_distribute_block + BLOCKS_PER_HOUR
    /\ world_statistics.interest_rate_per_block = 2
    /\ world_statistics.total_pos_staking_tokens = 2
    /\ circulating_tokens(Balances(cache), world_statistics)
        < world_statistics.total_issued_tokens
    /\ world_statistics.distributable_pos_interest
        = db_stat.distributable_pos_interest + 1
    /\ interest_rate_outside_root(Balances(cache), world_statistics) = 2

\* the sum of the amounts of the triples paid to one address
RECURSIVE paid_to(_, _)
paid_to(rewards, a) ==
    IF rewards = <<>> THEN 0
    ELSE (IF Head(rewards)[1] = a THEN Head(rewards)[3] ELSE 0)
            + paid_to(Tail(rewards), a)

\* the sum of the amounts of all the triples
RECURSIVE paid_out(_)
paid_out(rewards) ==
    IF rewards = <<>> THEN 0 ELSE Head(rewards)[3] + paid_out(Tail(rewards))

\* the address the stored POS register names for an identifier
registered(identifier) ==
    LET word == db[POS_REGISTER_CONTRACT_ADDRESS][1].storage[identifier]
    IN  IF word \in Addresses THEN word ELSE ZeroAddress

\* C26: distribute_pos_interest pays each (identifier, points) pair
\* pool * points / MAX_TERM_POINTS of the pool it found, credits the amount to
\* the balance of the identifier's address and to total_issued_tokens, returns
\* one (address, identifier, amount) triple per pair in the order given, and
\* leaves the pool at zero and last_distribute_block at the block given,
\* whatever the payouts add up to.
DistributePaysByPoints ==
    [][(ret'.op = "distribute_pos_interest" /\ ret'.res = "Ok") =>
        LET pool == world_statistics.distributable_pos_interest
            pairs == ret'.pos_points
            rewards == ret'.account_rewards
        IN  /\ Len(rewards) = Len(pairs)
            /\ \A i \in 1..Len(pairs) :
                    rewards[i] = <<registered(pairs[i][1]), pairs[i][1],
                                   (pool * pairs[i][2]) \div MAX_TERM_POINTS>>
            /\ \A a \in AllAddresses :
                    Balances(cache')[a] = Balances(cache)[a] + paid_to(rewards, a)
            /\ world_statistics'.total_issued_tokens
                = world_statistics.total_issued_tokens + paid_out(rewards)
            /\ world_statistics'.distributable_pos_interest = 0
            /\ world_statistics'.last_distribute_block = ret'.block]_vars

\* a distribution over two pairs has paid out more than the pool held, to an
\* address the store did not have and to one it had, and the pool is empty
DistributePaysByPointsWitness ==
    /\ ret.op = "distribute_pos_interest"
    /\ ret.res = "Ok"
    /\ ncalls = 1
    /\ Len(ret.account_rewards) = 2
    /\ ret.account_rewards[1][2] = 2
    /\ ret.account_rewards[1][1] = 1
    /\ ret.account_rewards[2][1] = NumAddr
    /\ ret.account_rewards[1][3] = 1
    /\ ret.account_rewards[2][3] = 3
    /\ paid_out(ret.account_rewards) > db_stat.distributable_pos_interest
    /\ db_stat.distributable_pos_interest = 3
    /\ world_statistics.distributable_pos_interest = 0
    /\ world_statistics.last_distribute_block = ret.block
    /\ ret.block # db_stat.last_distribute_block
    /\ balance(cache, NumAddr) = 3

\* commit_and_notify has returned
NotifyReturned == nroots' = nroots + 1 /\ ret'.op = "commit_and_notify"

\* C28: after commit_and_notify the changes handed to the transaction pool
\* cover every account the commit changed: the snapshot of each account it
\* wrote to the store and a deleted-address record for each account it
\* removed from the store.
NotifierCoversEveryChange ==
    [][(NotifyReturned /\ ret'.res = "Ok") =>
        LET handed == txpool'[Len(txpool')].accounts
        IN  \A i \in 1..Len(db_log') :
                /\ db_log'[i].write = "commit" =>
                        \E j \in 1..Len(handed) :
                            /\ handed[j].ok
                            /\ handed[j].address = db_log'[i].address
                            /\ handed[j].account = db'[db_log'[i].address]
                /\ db_log'[i].write = "delete" =>
                        \E j \in 1..Len(handed) :
                            /\ ~handed[j].ok
                            /\ handed[j].address = db_log'[i].address]_vars

\* C29: commit_and_notify returns without waiting for the transaction pool:
\* when it returns Ok the store has committed the epoch and one more thread
\* has been spawned, which has the accounts and has not yet notified the pool;
\* when it does not return Ok no thread has been spawned. Threads spawned
\* before are not waited for either.
NotifyNeverWaits ==
    [][NotifyReturned =>
        IF ret'.res = "Ok"
        THEN /\ db_epoch' = db_epoch + 1
             /\ db_stat' = commit_world_statistics(world_statistics)
             /\ Len(txpool') = Len(txpool) + 1
             /\ SubSeq(txpool', 1, Len(txpool)) = txpool
             /\ ~txpool'[Len(txpool')].delivered
             /\ txpool'[Len(txpool')].accounts = accounts_for_txpool(accounts_to_notify')
        ELSE /\ txpool' = txpool
             /\ db_epoch' = db_epoch]_vars

\* a second commit_and_notify has returned Ok while the thread of the first,
\* which has an account to report, has still not notified the pool
NotifyNeverWaitsWitness ==
    /\ ret.op = "commit_and_notify"
    /\ ret.res = "Ok"
    /\ Len(txpool) = 2
    /\ ~txpool[1].delivered
    /\ ~txpool[2].delivered
    /\ Len(txpool[1].accounts) > 0
    /\ db_epoch = 2

\* revert_to_checkpoint has popped a frame
RevertPopped ==
    /\ ret'.op = "revert_to_checkpoint"
    /\ Len(checkpoints') = Len(checkpoints) - 1
    /\ Len(checkpoints) > 0

FrameSlotsDirty ==
    \A i \in 1..Len(checkpoints) : \A k \in AllAddresses :
        checkpoints[i][k] # None => cache[k] # None /\ is_dirty(cache[k][1])

SqrtFloorWithinWidth ==
    ret.op = "sqrt_u256" =>
        /\ ret.res # "Panic"
        /\ ret.pc = "loop" =>
                /\ ret.root < pow2(U256_BITS)
                /\ ret.root * ret.root < pow2(U256_BITS)
                /\ ret.input \div ret.root + ret.root < pow2(U256_BITS)
        /\ ret.pc = "return" =>
                /\ ret.val * ret.val <= ret.input
                /\ ret.input < (ret.val + 1) * (ret.val + 1)

\* the updated-account records of the accounts one run of compute_state_root
\* has written, in the order of its writes
RECURSIVE committed_by_call(_, _)
committed_by_call(log, store) ==
    IF log = <<>>
    THEN <<>>
    ELSE IF Head(log).write = "commit"
    THEN <<[ok |-> TRUE, address |-> Head(log).address,
            account |-> store[Head(log).address]]>>
            \o committed_by_call(Tail(log), store)
    ELSE committed_by_call(Tail(log), store)

\* C39 as stated: the accounts commit_and_notify sends are those committed by
\* that call only; accounts recorded by an earlier compute_state_root, commit
\* or commit_and_notify of the same State are not sent again.
NotifySendsOnlyThisCall ==
    [][(NotifyReturned /\ ret'.res = "Ok") =>
        txpool'[Len(txpool')].accounts = committed_by_call(db_log', db')]_vars

\* C39 as amended: accounts_to_notify is never cleared, so the accounts
\* commit_and_notify sends are the updated-account records of every run of
\* compute_state_root, commit and commit_and_notify on the State since it was
\* constructed, those of earlier runs first and sent again, followed by the
\* records of the accounts this call has committed.
NotifySendsEveryRun ==
    [][/\ \E k \in 0..Len(accounts_to_notify') :
                accounts_to_notify = SubSeq(accounts_to_notify', 1, k)
       /\ (NotifyReturned /\ ret'.res = "Ok") =>
            txpool'[Len(txpool')].accounts =
                SelectSeq(accounts_to_notify, LAMBDA earlier : earlier.ok)
                    \o committed_by_call(db_log', db')]_vars

\* a second run, commit_and_notify, has committed nothing itself and has sent
\* the account an earlier compute_state_root recorded
NotifySendsEveryRunWitness ==
    /\ ret.op = "commit_and_notify"
    /\ ret.res = "Ok"
    /\ nroots = 2
    /\ Len(txpool) = 1
    /\ committed_by_call(db_log, db) = <<>>
    /\ Len(txpool[1].accounts) > 0
    /\ txpool[1].accounts = SelectSeq(accounts_to_notify, LAMBDA sent : sent.ok)

\* the states a slot of the cache may be in
CachedStates == {"Clean", "Dirty"}

\* C33: the account cache never holds a slot in the Committed state: in every
\* reachable state each cached slot is Clean or Dirty, and each slot recorded
\* in an undo frame of the checkpoint stack is Clean or Dirty as well.
NoCommittedSlotCached ==
    /\ \A a \in AllAddresses :
            cache[a] # None => cache[a][1].state \in CachedStates
    /\ \A i \in 1..Len(checkpoints) : \A a \in AllAddresses :
            (checkpoints[i][a] # None /\ checkpoints[i][a][1] # None)
                => checkpoints[i][a][1][1].state \in CachedStates

\* compute_state_root has committed a cached account, leaving the cache empty,
\* and a call after it has cached a slot again
NoCommittedSlotCachedWitness ==
    /\ nroots > 0
    /\ \E i \in 1..Len(db_log) : db_log[i].write = "commit"
    /\ ret.op \notin {"compute_state_root", "commit"}
    /\ \E a \in AllAddresses : cache[a] # None /\ is_dirty(cache[a][1])

\* a call has returned the error of require_exists
FailedOnAbsent ==
    /\ ncalls' = ncalls + 1
    /\ ret'.res = "Err"

\* C34: a mutation that fails with IncompleteDatabase because its target
\* account is absent changes no query result, no field of the world
\* statistics and nothing a later compute_state_root would write or report:
\* the address still does not exist, with a checkpoint open or not.
FailedMutationChangesNothing ==
    [][FailedOnAbsent =>
        /\ \A a \in ret'.touched : ~exists(cache, a) /\ ~exists(cache', a)
        /\ \A q \in Queries : \A a \in AllAddresses :
                query_value(q, cache', a) = query_value(q, cache, a)
        /\ View(cache') = View(cache)
        /\ world_statistics' = world_statistics
        /\ world_statistics_checkpoints' = world_statistics_checkpoints
        /\ commit_accounts(cache', db) = commit_accounts(cache, db)
        /\ notify_records(cache', ZeroAddress) = notify_records(cache, ZeroAddress)
        /\ <<db', db_stat', accounts_to_notify'>> = <<db, db_stat, accounts_to_notify>>]_vars

\* a withdraw for an address that is in neither the cache nor the store has
\* failed inside a checkpoint: the slot it left holds no account
FailedMutationChangesNothingWitness ==
    \E a \in Addresses :
        /\ ret.op = "withdraw"
        /\ ret.res = "Err"
        /\ ret.touched = {a}
        /\ Len(checkpoints) > 0
        /\ db[a] = None
        /\ cache[a] # None
        /\ cache[a][1].account = None
        /\ is_dirty(cache[a][1])

\* transfer_balance has returned
Transferred ==
    /\ ncalls' = ncalls + 1
    /\ ret'.op = "transfer_balance"

\* C35: transfer_balance(from, to, by) on an existing sender leaves the sum of
\* the balances of from and to unchanged, also when from = to, moves by from
\* the one to the other, and changes no field of the world statistics and no
\* other account; when the sender is absent and by is not zero it returns an
\* error and the recipient's balance is unchanged.
TransferConservesBalances ==
    [][Transferred =>
        LET from == ret'.from
            to == ret'.to
            by == ret'.by
        IN  /\ world_statistics' = world_statistics
            /\ \A a \in AllAddresses \ {from, to} : View(cache')[a] = View(cache)[a]
            /\ IF exists(cache, from)
               THEN /\ ret'.res = "Ok"
                    /\ balance(cache', from) + balance(cache', to)
                            = balance(cache, from) + balance(cache, to)
                    /\ balance(cache', to) =
                            IF from = to THEN balance(cache, to)
                            ELSE balance(cache, to) + by
               ELSE IF by # 0
               THEN /\ ret'.res = "Err"
                    /\ balance(cache', to) = balance(cache, to)
                    /\ View(cache') = View(cache)
               ELSE ret'.res = "Ok"]_vars

\* a transfer of one unit from the stored account to an address that did not
\* exist has returned
TransferConservesBalancesWitness ==
    /\ ret.op = "transfer_balance"
    /\ ret.res = "Ok"
    /\ ret.from = 1
    /\ ret.to = NumAddr
    /\ ret.by = 1
    /\ balance(cache, NumAddr) = 1
    /\ balance(cache, 1) = InitBalance - 1
    /\ db[NumAddr] = None

\* the results with which a settlement refuses a transaction
Refusals == {"NotEnoughBalance", "ExceedStorageLimit"}

\* the refund and the CIP-107 conversion of the j-th address of the batch,
\* without its charge
RefundOnly(j) ==
    settle_collateral_for_address(
        Prefix(j - 1).cache, checkpoints, Prefix(j - 1).ws, ret'.keys[j],
        ret'.changes[ret'.keys[j]][1], ret'.changes[ret'.keys[j]][2],
        TRUE, ret'.cip107)

\* C31: the engine rolls nothing back when a settlement is refused: after
\* collect_and_settle_collateral has returned NotEnoughBalance or
\* ExceedStorageLimit both checkpoint stacks are as deep as before, the
\* settlements of the addresses before the refused one and the refund of the
\* refused one are in the cache and the world statistics, and a revert of the
\* checkpoint opened before the call restores every account and the world
\* statistics to what they were when it was opened.
RefusedSettlementStays ==
    [][/\ (BatchSteps /\ ret'.res \in Refusals) =>
            /\ Len(checkpoints') = Len(checkpoints)
            /\ world_statistics_checkpoints' = world_statistics_checkpoints
            /\ ret'.res = "ExceedStorageLimit" =>
                    /\ ret'.settled = Len(ret'.keys)
                    /\ View(cache') = View(Prefix(Len(ret'.keys)).cache)
                    /\ world_statistics' = Prefix(Len(ret'.keys)).ws
            /\ ret'.res = "NotEnoughBalance" =>
                    /\ ret'.settled < Len(ret'.keys)
                    /\ View(cache') = View(RefundOnly(ret'.settled + 1).cache)
                    /\ world_statistics' = RefundOnly(ret'.settled + 1).ws
       /\ (/\ ret.op = "collect_and_settle_collateral"
           /\ ret.res \in Refusals
           /\ ret'.op = "revert_to_checkpoint"
           /\ Len(pre) > 0) =>
            /\ View(cache') = pre[Len(pre)].view
            /\ world_statistics' = pre[Len(pre)].ws
            /\ Len(checkpoints') = Len(checkpoints) - 1]_vars

\* a settlement inside a checkpoint has been refused at its second address
\* after the first was settled: the accounts and the world statistics differ
\* from those the checkpoint was opened with, which a revert will restore
RefusedSettlementStaysWitness ==
    /\ ret.op = "collect_and_settle_collateral"
    /\ ret.res = "NotEnoughBalance"
    /\ ret.settled = 1
    /\ Len(checkpoints) = 1
    /\ Len(pre) = 1
    /\ View(cache) # pre[1].view
    /\ world_statistics # pre[1].ws
    /\ world_statistics_checkpoints = <<pre[1].ws>>

\* revert_to_checkpoint has popped the inner of two open frames
InnerReverted ==
    /\ ret'.op = "revert_to_checkpoint"
    /\ Len(checkpoints) = 2
    /\ Len(pre) = 2

\* the account an undo entry stands for: the recorded slot's account, or the
\* stored account when the entry records that no slot was cached
recorded_account(undo, a) ==
    IF undo[1] = None THEN get_account(a) ELSE undo[1][1].account

\* C32: a revert of the inner of two checkpoints undoes the inner scope only:
\* every account and the world statistics are as they were when the inner
\* checkpoint was opened, the outer frame is untouched and still records, for
\* every address mutated in the outer scope, the value it had before the outer
\* checkpoint, so that a revert following it restores those and the world
\* statistics of the outer checkpoint.
InnerRevertKeepsOuterScope ==
    [][InnerReverted =>
        /\ ret'.res = "Ok"
        /\ View(cache') = pre[2].view
        /\ world_statistics' = pre[2].ws
        /\ checkpoints' = <<checkpoints[1]>>
        /\ world_statistics_checkpoints' = <<pre[1].ws>>
        /\ \A a \in pre[1].touched :
                /\ checkpoints'[1][a] # None
                /\ recorded_account(checkpoints'[1][a], a) = pre[1].view[a]
        /\ LET outer == revert_to_checkpoint(cache', checkpoints', world_statistics',
                                             world_statistics_checkpoints')
           IN  /\ View(outer.cache) = pre[1].view
               /\ outer.ws = pre[1].ws
               /\ outer.checkpoints = <<>>]_vars

\* inside the outer checkpoint a transfer gave the two addresses new balances,
\* inside the inner one a deposit changed the sender and the total staked, and
\* the inner revert has returned: the transfer stands, the deposit is undone
InnerRevertKeepsOuterScopeWitness ==
    /\ ret.op = "revert_to_checkpoint"
    /\ Len(checkpoints) = 1
    /\ Len(pre) = 1
    /\ pre[1].touched = {1, NumAddr}
    /\ last_pre # <<>>
    /\ last_pre[1].touched = {1}
    /\ last_pre[2].ws # world_statistics
    /\ balance(cache, 1) = InitBalance - 1
    /\ balance(cache, NumAddr) = 1
    /\ staking_balance(cache, 1) + 1 = last_pre[2].view[1][1].staking_balance
    /\ View(cache) # pre[1].view

\* the threads that run one kind of call
ThreadsOf(kind) == {t \in Threads : ret.threads[t].kind = kind}

\* thread t has inserted, or found it need not insert, the account it loaded
Inserting(t) ==
    /\ ret.threads[t].pc \in {"upgrade_insert", "lock_insert"}
    /\ ret'.threads[t].pc # ret.threads[t].pc

\* C36: when several threads query the same uncached address at once, under
\* every interleaving of the shared lookup, the upgradable lock and the load,
\* the address gets one slot, which stays; a freshly loaded account never
\* replaces a slot that is already there; no other address gets a slot; and
\* every reader gets the same answer, found exactly when the store holds the
\* account.
ConcurrentQueriesOneSlot ==
    [][ret.op = "threads" =>
        /\ cache[ret.address] # None => cache'[ret.address] # None
        /\ \A t \in Threads :
                (Inserting(t) /\ cache[ret.address] # None) =>
                    cache'[ret.address] = cache[ret.address]
        /\ \A t \in Threads :
                (Inserting(t) /\ cache[ret.address] = None) =>
                    cache'[ret.address] = Some(new_clean(get_account(ret.address)))
        /\ \A b \in AllAddresses \ {ret.address} : cache'[b] = None
        /\ \A t \in ThreadsOf("read_account_ext") :
                /\ ret'.threads[t].found \in
                        {"none", IF db[ret.address] # None THEN "found" ELSE "not_found"}
                /\ ret'.threads[t].pc = "done" =>
                        /\ ret'.threads[t].found # "none"
                        /\ cache'[ret.address] # None
      ]_vars

\* three readers of the stored address have all returned, having found it
ConcurrentQueriesOneSlotWitness ==
    /\ ret.op = "threads"
    /\ ret.address = 1
    /\ \A t \in Threads :
            /\ ret.threads[t].kind = "read_account_ext"
            /\ ret.threads[t].pc = "done"
            /\ ret.threads[t].found = "found"
    /\ cache[1] = Some(new_clean(get_account(1)))

\* the overlay of the address before the setters' change and after it
PreOverlay == from_loaded(db[ret.address][1])
PostOverlay == OverlayAccount_set_sponsor_for_gas(PreOverlay, SponsorBalance)

\* the slot of the address is Dirty
DirtySlot(c) == c[ret.address] # None /\ is_dirty(c[ret.address][1])

\* the slot of the address holds the sponsor the setters set
SponsorSet(c) ==
    /\ db[ret.address] # None
    /\ c[ret.address] # None
    /\ c[ret.address][1].account = Some(PostOverlay)

\* C37: a query racing with set_sponsor_for_gas never loses the mutation:
\* under every interleaving a slot that is Dirty stays Dirty and is never
\* replaced by a Clean slot loaded from the store, the sponsor once set stays
\* set, a setter that returns Ok has left the slot Dirty with the sponsor set,
\* and the overlay a reader is given is the one before or the one after the
\* mutation.
QueryNeverLosesMutation ==
    [][ret.op = "threads" =>
        /\ DirtySlot(cache) => DirtySlot(cache')
        /\ SponsorSet(cache) => SponsorSet(cache')
        /\ \A t \in ThreadsOf("set_sponsor_for_gas") :
                (ret'.threads[t].found = "ok" /\ ret.threads[t].found = "none") =>
                    DirtySlot(cache') /\ SponsorSet(cache')
        /\ \A t \in ThreadsOf("read_account_ext") :
                ret'.threads[t].seen # None =>
                    /\ db[ret.address] # None
                    /\ ret'.threads[t].seen[1] \in {PreOverlay, PostOverlay}
      ]_vars

\* a reader was given the overlay without the sponsor and still holds its
\* guard, another reader has been given the overlay with it, and the setter
\* has returned
QueryNeverLosesMutationWitness ==
    /\ ret.op = "threads"
    /\ db[ret.address] # None
    /\ \E r1 \in Threads, r2 \in Threads, s \in Threads :
            /\ ret.threads[r1].kind = "read_account_ext"
            /\ ret.threads[r1].pc = "done"
            /\ ret.threads[r1].seen = Some(PreOverlay)
            /\ ret.threads[r2].kind = "read_account_ext"
            /\ ret.threads[r2].pc = "guard"
            /\ ret.threads[r2].seen = Some(PostOverlay)
            /\ ret.threads[s].kind = "set_sponsor_for_gas"
            /\ ret.threads[s].found = "ok"
    /\ DirtySlot(cache)
    /\ SponsorSet(cache)

\* the locks thread t holds
Holds(t) ==
    {l \in {"readers", "upgradable", "writer", "checkpoints_writer"} : t \in ret.lock[l]}

\* the places where a thread is about to take a lock of the cache
AboutToLockCache == {"start", "miss", "lock", "lock_insert", "upgrade", "upgrade_insert"}

AllDone == \A t \in Threads : ret.threads[t].pc = "done"

\* the locks are taken in the order cache, checkpoint stack; they exclude as a
\* reader-writer lock does; a call that has returned holds no exclusive lock;
\* and while a call is unfinished some thread can take a step
LocksOrdered ==
    ret.op = "threads" =>
        /\ ret.lock.checkpoints_writer \subseteq ret.lock.writer
        /\ \A t \in Threads :
                /\ ret.threads[t].pc \in AboutToLockCache =>
                        "checkpoints_writer" \notin Holds(t)
                /\ ret.threads[t].pc = "done" => Holds(t) = {}
                /\ ret.threads[t].found # "none" => "writer" \notin Holds(t)
                /\ (ret.threads[t].kind = "read_account_ext"
                        /\ ret.threads[t].pc = "guard") => Holds(t) = {"readers"}
        /\ Cardinality(ret.lock.writer) <= 1
        /\ Cardinality(ret.lock.upgradable) <= 1
        /\ ret.lock.writer # {} => ret.lock.readers = {} /\ ret.lock.upgradable = {}
        /\ ~AllDone => \E t \in Threads : ENABLED Thread(t)

\* C38: concurrent runs of read_account_ext and require_or_set cannot
\* deadlock: the lock of the cache is always taken before the lock of the
\* checkpoint stack and never while that one is held, a call that has
\* returned, with a value or an error, has released the exclusive lock of the
\* cache, and every call that has started completes in the end.
NoDeadlockEveryQueryCompletes ==
    /\ []LocksOrdered
    /\ \A t \in Threads :
            (ret.op = "threads" /\ ret.threads[t].pc # "done")
                ~> (ret.threads[t].pc = "done")

\* a setter holds the exclusive lock of the cache and the lock of the
\* checkpoint stack while a reader that missed waits for the upgradable lock
\* and a second setter, which has loaded the account, waits for the exclusive
\* lock
NoDeadlockEveryQueryCompletesWitness ==
    /\ ret.op = "threads"
    /\ Len(checkpoints) = 1
    /\ \E s1 \in Threads, r \in Threads, s2 \in Threads :
            /\ ret.threads[s1].kind = "set_sponsor_for_gas"
            /\ ret.threads[s1].pc = "entry"
            /\ Holds(s1) = {"writer", "checkpoints_writer"}
            /\ ret.threads[r].kind = "read_account_ext"
            /\ ret.threads[r].pc = "miss"
            /\ ret.threads[s2].kind = "set_sponsor_for_gas"
            /\ ret.threads[s2].pc = "lock_insert"
    /\ ~can_upgradable_read(ret.lock)
    /\ ~can_write(ret.lock)

====
